---- MODULE Spec2Model ----
(***************************************************************************)
(* Brief: evidence-aggregation and risk-scoring pipeline                   *)
(* (backend/src/services/briefService.ts and routes/brief.ts).             *)
(*                                                                         *)
(* The specifications share the variables below:                           *)
(*   SpecRisk   - runMarketModule's findings and runRiskModule, applied to *)
(*                every combination of module outputs (pure functions);    *)
(*   SpecBundle - the bundle grouping of runMemeModule applied to funding  *)
(*                maps, followed by the scorer's bundle term;              *)
(*   Spec       - one POST /api/brief request: resolver, the four          *)
(*                enrichment modules, scorer, narrative, reply.            *)
(*   FairSpec   - Spec with the fairness the event loop and the timers of  *)
(*                withTimeout give;                                        *)
(*   SpecAdapter   - the requests one BscScan or Frontrun adapter issues;  *)
(*   SpecAppend    - the appends of the four modules to the shared         *)
(*                   findings and evidence lists, and the returned slices; *)
(*   SpecNarrative - summarizeNarrativeWithAi and the choice between the   *)
(*                   LLM narrative and the fallback;                       *)
(*   SpecRuntime   - buildRuntimeInfo over the providers' states;          *)
(*   SpecHolders   - the candidate and top-holder lists of runMemeModule;  *)
(*   SpecAgentRun  - two POST /api/agents/:id/run requests with payment    *)
(*                   verification (routes, nfaOnchain.ts, agentStore.ts);  *)
(*   SpecNfa       - the BAP578 contract: createAgent, transfers and the   *)
(*                   free-mint administration;                             *)
(*   SpecFunds     - the BNB of the BAP578 contract and of its agents:     *)
(*                   fundAgent, withdrawFromAgent, emergencyWithdraw;      *)
(*   SpecFunding   - the funding-source loop of runMemeModule over the     *)
(*                   transfer pages (FairSpecFunding: with fairness);      *)
(*   SpecPool      - mapLimit with the limits of runMemeModule;            *)
(*   SpecIntel     - the findings runIntelModule pushes per source;        *)
(*   SpecStore     - AgentStore operations running on one store file.      *)
(***************************************************************************)
EXTENDS Integers, Sequences, FiniteSets, TLC

VARIABLES
    \* module outputs, shared by SpecRisk, SpecBundle and Spec
    resolved,    \* ModuleResolve: [isContract, type]
    dex,         \* DexMeta built by runMarketModule
    intel,       \* the parts of ModuleIntel the scorer reads
    meme,        \* ModuleMeme: [isNull, bundleGroupCount]
    findings,    \* Finding[] pushed by runMarketModule
    score,       \* result of runRiskModule
    \* the market-pair service
    dsResponse,  \* what it answers for the address when it answers
    \* SpecRisk
    riskPc,
    \* SpecBundle
    topHolders,            \* number of top holders; they are 1..topHolders
    firstFundingByHolder,  \* Map<holder, source> in insertion order
    bundledSources,        \* [source, count] entries kept by the grouping
    bundlePc,
    \* Spec: one POST /api/brief request
    query,       \* "empty", "noAddress" or "address"
    env,         \* [moralisKey, aiKey]: which API keys are configured
    pc,          \* position of analyzeBrief
    mpc,         \* position of each enrichment module
    calls,       \* state of every external call of the request
    intelPending,\* number of unsettled calls of runIntelModule's Promise.all
    pageCount,   \* runMemeModule's pageCount
    timedOut,    \* some withTimeout timer has fired in this request
    reply,       \* what the route sent: [status, body]
    \* SpecAdapter: one call of a provider adapter that re-issues requests
    adapter,        \* [name, configured]: the adapter called, and whether its key is set
    endpoints,      \* the endpoints the adapter goes through, in order
    apc,            \* [at, i, phase]: endpoint index, retry counter, position
    requests,       \* the HTTP requests issued so far: [endpoint, outcome]
    adapterResult,  \* what the adapter returned
    \* SpecAppend: the appends of one request to the shared lists
    evidence,       \* Evidence[]; findings and evidence hold the appending module's name
    seg,            \* for each enrichment module, the await it is at
    briefLists,     \* the findings and evidence of the BriefResult returned
    \* SpecNarrative: the choice between the LLM narrative and the fallback
    lang,           \* Locale of the request
    llm,            \* how the LLM endpoint behaves: [configured, fetch, body, tldr, explanation]
    aiNarrative,    \* what summarizeNarrativeWithAi(...).catch(() => null) gave
    narrative,      \* which texts the BriefResult carries: "ai" or "fallback"
    npc,
    \* SpecRuntime: buildRuntimeInfo
    providers,      \* per optional provider: "unconfigured", "empty" (configured,
                    \* nothing returned) or "api" (it returned data on this request)
    runtime,        \* BriefResult.runtime: [mode, status]
    upc,
    \* SpecHolders: the candidate and top-holder lists of runMemeModule
    tokenAddress,   \* resolved.address
    ownersResp,     \* ownersResp.owners, the ownerAddress of each row
    codeAt,         \* which holder addresses have bytecode
    candidates,
    holderList,     \* the local topHolders of runMemeModule
    cpc,
    \* SpecAgentRun: POST /api/agents/:id/run, two requests in flight
    agent,          \* the AgentRecord and the on-chain configuration
    chainTx,        \* what the chain holds under the payment hash
    runs,           \* per request: body, position, reply
    usedPaymentTx,  \* usedPaymentTxByAgentId[id] of the store file
    \* SpecNfa: the BAP578 contract
    freeMintsPerUser,
    bonusFreeMints,
    freeMintsClaimed,
    tokens,         \* token id -> [owner, isFreeMint, minter]; _tokenIdCounter = Len(tokens)
    paused,
    treasuryBalance,
    receipt,        \* the last transaction: call, arguments, outcome
    \* SpecFunds: the BNB held by the BAP578 contract and by its agents
    agentBalance,   \* agentStates[tokenId].balance
    contractBalance,\* address(this).balance
    totalFunded,    \* per token, the sum of the fundAgent values accepted
    totalWithdrawn, \* per token, the sum of the amounts withdrawFromAgent paid
    \* SpecFunding: the funding-source loop of runMemeModule
    fundHolders,    \* the local topHolders at line 977
    holderSet,
    fundingByHolder,\* the local firstFundingByHolder: Map entries in insertion order
    cursor,
    fundPageCount,  \* the local pageCount
    earliestSender, \* per holder, the sender of the first transfer to it in the pages received
    fundPc,
    \* SpecPool: one call of mapLimit
    items,
    limit,
    idx,
    out,
    worker,         \* per worker: where it is and the local i
    fnCalls,        \* per item, the calls of fn made with it
    fnValue,        \* per item, what the call of fn made with it resolved to
    abandoned,      \* the items whose lookup lost the race to its timer and has not settled
    poolPc,
    \* SpecIntel: the findings of runIntelModule
    intelData,      \* what the seven awaited sources resolved to
    intelPc,
    \* SpecStore: the store file and the AgentStore operations under way
    storeFile,      \* agents.store.json: the history and the used hashes of the agent
    tmpFile,        \* agents.store.json.tmp, or NoFile
    ops             \* per operation: the call, where it is, and its local data

rvars == <<dsResponse, riskPc>>
bvars == <<topHolders, firstFundingByHolder, bundledSources, bundlePc>>
pvars == <<query, env, pc, mpc, calls, intelPending, pageCount, timedOut, reply>>
facts == <<resolved, dex, intel, meme, findings, score>>
avars == <<adapter, endpoints, apc, requests, adapterResult>>
\* the variables of the specifications other than SpecRisk, SpecBundle, Spec
fvars == <<evidence, seg, briefLists>>
nvars == <<lang, llm, aiNarrative, narrative, npc>>
uvars == <<providers, runtime, upc>>
cvars == <<tokenAddress, ownersResp, codeAt, candidates, holderList, cpc>>
gvars == <<agent, chainTx, runs, usedPaymentTx>>
kvars == <<freeMintsPerUser, bonusFreeMints, freeMintsClaimed, tokens, paused, treasuryBalance, receipt>>
wvars == <<agentBalance, contractBalance, totalFunded, totalWithdrawn>>
dvars == <<fundHolders, holderSet, fundingByHolder, cursor, fundPageCount, earliestSender, fundPc>>
mvars == <<items, limit, idx, out, worker, fnCalls, fnValue, abandoned, poolPc>>
ivars == <<intelData, intelPc>>
svars == <<storeFile, tmpFile, ops>>
yvars == <<dvars, mvars, ivars, svars>>
xvars == <<avars, fvars, nvars, uvars, cvars, gvars, kvars, wvars, yvars>>
vars == <<facts, rvars, bvars, pvars, xvars>>

(***************************************************************************)
(* Helpers                                                                 *)
(***************************************************************************)
Min(a, b) == IF a < b THEN a ELSE b
Max(a, b) == IF a > b THEN a ELSE b

(***************************************************************************)
(* Input domains                                                           *)
(***************************************************************************)
\* USD liquidity of the best pair after Number(x || 0) || 0 (a missing or
\* non-numeric field is 0).  The values straddle the 5,000 and 30,000 bands.
LiquidityValues == {-1, 0, 4000, 4999, 5000, 6000, 29999, 30000, 50000}
\* Fully diluted valuation after the same coercion.  2,000,000 puts 6,000 on
\* the 0.003 ratio exactly and 4,000 below it.
FdvValues == {0, 1000000, 2000000, 20000000}

\* frAlt is out.slice(0, 30)
MaxAltWallets == 30
\* largest profitable-position count drawn
MaxProfitable == 9
\* bundledSources is .slice(0, 4)
MaxBundleGroups == 4

\* arkham.entityType values drawn ("" stands for an absent type)
EntityTypes == {"", "cex", "mixer", "exploiter"}
riskyTypes == {"mixer", "hacker", "exploit", "sanctioned", "scammer", "phishing"}
\* String.prototype.includes on the entity types above
Includes(t, k) == (t = k) \/ (t = "exploiter" /\ k = "exploit")

DsResponses ==
    {[kind |-> "error", usd |-> 0, fdv |-> 0], [kind |-> "nopair", usd |-> 0, fdv |-> 0]}
    \cup {[kind |-> "pair", usd |-> l, fdv |-> f] : l \in LiquidityValues, f \in FdvValues}

\* runIntelModule asks for the portfolio only when resolved.type is wallet
IntelFacts(isContract) ==
    {[frAltLen |-> a, arkhamEntityType |-> t, gmgnProfitable |-> p] :
        a \in 0..MaxAltWallets, t \in EntityTypes,
        p \in (IF isContract THEN {0} ELSE 0..MaxProfitable)}

\* runMemeModule returns null for a wallet
MemeResults(isContract) ==
    {[isNull |-> TRUE, bundleGroupCount |-> 0]}
    \cup (IF isContract
          THEN {[isNull |-> FALSE, bundleGroupCount |-> c] : c \in 0..MaxBundleGroups}
          ELSE {})

(***************************************************************************)
(* clampScore                                                              *)
(***************************************************************************)
\* The score is a sum of integer constants, so Number.isFinite holds and
\* Math.round is the identity.
clampScoreNoUpper(n) == Max(0, n)
clampScore(n) == Max(0, Min(100, n))

(***************************************************************************)
(* runMarketModule                                                         *)
(***************************************************************************)
DexNone == [source |-> "none", hasLiquidity |-> FALSE, liquidityUsd |-> 0, fdvUsd |-> 0]

\* lines 634-652: dex.liquidityUsd and dex.fdvUsd are set together, only
\* when the response carries a best pair; hasLiquidity is liquidityUsd != null
MarketDex(ds) ==
    IF ds.kind = "error" THEN DexNone
    ELSE IF ds.kind = "nopair" THEN [DexNone EXCEPT !.source = "api"]
    ELSE [source |-> "api", hasLiquidity |-> TRUE, liquidityUsd |-> ds.usd, fdvUsd |-> ds.fdv]

Finding(type, text) == [type |-> type, text |-> text]

\* lines 655-697
MarketLiquidityFindingsLe(r, d) ==
    IF ~r.isContract THEN <<>>
    ELSE IF d.hasLiquidity /\ d.liquidityUsd > 0
         THEN IF d.liquidityUsd <= 5000 THEN <<Finding("warning", "Low liquidity")>>
              ELSE IF d.liquidityUsd < 30000 THEN <<Finding("info", "Moderate liquidity")>>
              ELSE <<Finding("success", "Healthy liquidity")>>
         ELSE <<Finding("info", "No DEX liquidity data found")>>

MarketLiquidityFindings(r, d) ==
    IF ~r.isContract THEN <<>>
    ELSE IF d.hasLiquidity /\ d.liquidityUsd > 0
         THEN IF d.liquidityUsd < 5000 THEN <<Finding("warning", "Low liquidity")>>
              ELSE IF d.liquidityUsd < 30000 THEN <<Finding("info", "Moderate liquidity")>>
              ELSE <<Finding("success", "Healthy liquidity")>>
         ELSE <<Finding("info", "No DEX liquidity data found")>>

\* lines 699-712; ratio < 0.003 is liquidityUsd * 1000 < 3 * fdvUsd for fdvUsd > 0
MarketFdvFindings(r, d) ==
    IF r.isContract /\ d.hasLiquidity /\ d.fdvUsd # 0 /\ d.liquidityUsd # 0 /\ d.fdvUsd > 0
       /\ d.liquidityUsd * 1000 < 3 * d.fdvUsd
    THEN <<Finding("warning", "High FDV vs liquidity")>>
    ELSE <<>>

MarketFindings(r, d) == MarketLiquidityFindings(r, d) \o MarketFdvFindings(r, d)

(***************************************************************************)
(* runRiskModule                                                           *)
(***************************************************************************)
\* lines 1076-1081
LiquidityBandNoPositiveTest(r, d) ==
    IF d.hasLiquidity
    THEN IF d.liquidityUsd < 5000 THEN 32
         ELSE IF d.liquidityUsd < 30000 THEN 18 ELSE 0
    ELSE IF r.isContract THEN 10 ELSE 0

LiquidityBand(r, d) ==
    IF d.hasLiquidity /\ d.liquidityUsd > 0
    THEN IF d.liquidityUsd < 5000 THEN 32
         ELSE IF d.liquidityUsd < 30000 THEN 18 ELSE 0
    ELSE IF r.isContract THEN 10 ELSE 0

\* lines 1083-1086
FdvTerm(d) ==
    IF d.hasLiquidity /\ d.fdvUsd # 0 /\ d.liquidityUsd # 0 /\ d.fdvUsd > 0
       /\ d.liquidityUsd * 1000 < 3 * d.fdvUsd
    THEN 18 ELSE 0

\* lines 1088-1090
AltWalletTerm(i) ==
    IF i.frAltLen > 0 THEN Min(14, 4 + (i.frAltLen \div 3)) ELSE 0

\* lines 1091-1093; meme?.bundleGroupCount || 0
BundleCountOf(m) == IF m.isNull THEN 0 ELSE m.bundleGroupCount
BundleTermOffByOne(m) ==
    IF BundleCountOf(m) > 0 THEN Min(16, 6 + (BundleCountOf(m) + 1) * 4) ELSE 0
BundleTerm(m) ==
    IF BundleCountOf(m) > 0 THEN Min(16, 6 + BundleCountOf(m) * 4) ELSE 0

\* lines 1094-1097
EntityTerm(i) ==
    IF i.arkhamEntityType # "" /\ \E k \in riskyTypes : Includes(i.arkhamEntityType, k)
    THEN 15 ELSE 0

\* lines 1098-1100
ProfitTerm(i) == IF i.gmgnProfitable >= 8 THEN -4 ELSE 0

runRiskModule(r, d, i, m) ==
    LET s0 == 18
        s1 == IF r.isContract THEN s0 + 18 ELSE s0
        s2 == s1 + LiquidityBand(r, d)
        s3 == s2 + FdvTerm(d)
        s4 == s3 + AltWalletTerm(i)
        s5 == s4 + BundleTerm(m)
        s6 == s5 + EntityTerm(i)
        s7 == s6 + ProfitTerm(i)
    IN  clampScore(s7)

(***************************************************************************)
(* runMemeModule: grouping of the top holders by first funding source      *)
(***************************************************************************)
\* topHolders is candidates.filter(...).slice(0, 12)
MaxTopHolders == 12
\* funding sources drawn, and the most holders one source is drawn to fund
NumSources == 6
MaxPerSource == 4
\* top holders drawn without a recorded funder
MaxUnfunded == 1
Sources == 1..NumSources

RECURSIVE SumCounts(_, _)
SumCounts(c, n) == IF n = 0 THEN 0 ELSE c[n] + SumCounts(c, n - 1)

\* The values of firstFundingByHolder when source s funds c[s] holders:
\* holder by holder, the holders of source 1 first ("grouped"), or the
\* sources taken in turn ("interleaved").
RECURSIVE GroupedValues(_, _)
GroupedValues(c, s) ==
    IF s > NumSources THEN <<>>
    ELSE [k \in 1..c[s] |-> s] \o GroupedValues(c, s + 1)

RECURSIVE InterleavedValues(_, _)
InterleavedValues(c, round) ==
    IF round > MaxPerSource + 1 THEN <<>>
    ELSE LET RECURSIVE Row(_)
             Row(s) == IF s > NumSources THEN <<>>
                       ELSE (IF c[s] >= round THEN <<s>> ELSE <<>>) \o Row(s + 1)
         IN  Row(1) \o InterleavedValues(c, round + 1)

\* Map entries [to, from] in insertion order (line 1000)
FundingMap(values) == [k \in 1..Len(values) |-> [to |-> k, from |-> values[k]]]

\* lines 1006-1007: bySource, a Map<source, count> in insertion order
RECURSIVE IncrementSource(_, _)
IncrementSource(bySource, src) ==
    IF bySource = <<>> THEN <<[source |-> src, count |-> 1]>>
    ELSE IF Head(bySource).source = src
         THEN <<[Head(bySource) EXCEPT !.count = @ + 1]>> \o Tail(bySource)
         ELSE <<Head(bySource)>> \o IncrementSource(Tail(bySource), src)

RECURSIVE BySource(_, _)
BySource(map, acc) ==
    IF map = <<>> THEN acc
    ELSE BySource(Tail(map), IncrementSource(acc, Head(map).from))

\* line 1009: .filter(([, c]) => c >= 2)
IsBundleEntryFromOne(e) == e.count >= 1
IsBundleEntry(e) == e.count >= 2

\* line 1010: .sort((a, b) => b[1] - a[1]), a stable sort by descending count
RECURSIVE InsertByCount(_, _)
InsertByCount(sorted, e) ==
    IF sorted = <<>> THEN <<e>>
    ELSE IF Head(sorted).count >= e.count
         THEN <<Head(sorted)>> \o InsertByCount(Tail(sorted), e)
         ELSE <<e>> \o sorted

RECURSIVE SortByCountDesc(_, _)
SortByCountDesc(entries, acc) ==
    IF entries = <<>> THEN acc
    ELSE SortByCountDesc(Tail(entries), InsertByCount(acc, Head(entries)))

\* Array.prototype.slice(0, n)
SliceFirst(seq, n) == SubSeq(seq, 1, Min(n, Len(seq)))

\* lines 1008-1011
BundledSources(map) ==
    SliceFirst(SortByCountDesc(SelectSeq(BySource(map, <<>>), IsBundleEntry), <<>>), MaxBundleGroups)

\* lines 1063-1069 (the fields the scorer reads)
MemeResult(bundled) == [isNull |-> FALSE, bundleGroupCount |-> Len(bundled)]

MemeNull == [isNull |-> TRUE, bundleGroupCount |-> 0]
ZeroIntel == [frAltLen |-> 0, arkhamEntityType |-> "", gmgnProfitable |-> 0]
ContractTarget == [isContract |-> TRUE, type |-> "contract"]
WalletTarget == [isContract |-> FALSE, type |-> "wallet"]
NotResolved == [isContract |-> FALSE, type |-> "none"]

(***************************************************************************)
(* POST /api/brief: the external calls of one request                      *)
(***************************************************************************)
\* A call is "idle" until issued and again once its result has been read,
\* "pending" until it settles, and settles as
\* "data" (a usable answer), "last" (a transfer page without a cursor),
\* "empty" (an answer without the data looked for) or "rejected" (the promise
\* rejects: network or HTTP error, or the withTimeout timer fired).
RpcCalls == {"getBytecode", "getBalance", "getTransactionCount", "tokenReads", "ownerRead", "holderBytecode"}
HttpCalls == {"tokenMetadataProbe", "dexProbe", "marketDex", "tokenOwners", "holderProfiles",
              "transfersPage", "aiFetch", "aiBody"}
CallIds == RpcCalls \cup HttpCalls

\* the calls passed through withTimeout (lines 493, 498, 636, 934, 960, 983,
\* 1271); the awaits of RpcCalls and of res.json() (line 1287) are not
TimedCalls == {"tokenMetadataProbe", "dexProbe", "marketDex", "tokenOwners", "holderProfiles",
               "transfersPage", "aiFetch"}

\* the network calls of runIntelModule's Promise.all (lines 720-735): seven
\* entries, of which the portfolio or the trade sample is Promise.resolve(null)
NumIntelCalls == 6

\* transfer pages requested at most (line 981)
MaxPages == 6

\* the rejections that a .catch or try/catch turns into "no data":
\* lines 486-488, 493, 498, 602, 650, 937, 992 and, for the narrative, 1499
CaughtExceptNarrative(c) == c \in CallIds \ {"aiFetch", "aiBody"}
CaughtExceptBytecode(c) == c \in CallIds \ {"getBytecode"}
Caught(c) == c \in CallIds

\* what a pending call can settle as
Outcomes(c, e, ds) ==
    CASE c = "getBytecode" -> {"data", "empty", "rejected"}
      [] c \in {"getBalance", "getTransactionCount", "ownerRead"} -> {"data", "rejected"}
      \* Promise.allSettled never rejects (line 561)
      [] c = "tokenReads" -> {"data", "empty"}
      \* fetchMoralisTokenMetadata returns null without a key (line 282)
      [] c = "tokenMetadataProbe" -> IF e.moralisKey THEN {"data", "empty", "rejected"} ELSE {"empty"}
      [] c \in {"dexProbe", "marketDex"} -> {IF ds.kind = "pair" THEN "data" ELSE "empty", "rejected"}
      [] c = "tokenOwners" -> {"data", "empty", "rejected"}
      \* each probe has its own .catch (line 953)
      [] c = "holderBytecode" -> {"data", "empty"}
      \* each lookup has its own withTimeout and .catch (line 960)
      [] c = "holderProfiles" -> {"data"}
      [] c = "transfersPage" -> {"data", "last", "empty", "rejected"}
      [] c = "aiFetch" -> {"data", "empty", "rejected"}
      \* JSON.parse of the content may throw (line 1315)
      [] c = "aiBody" -> {"data", "empty", "rejected"}

Settled(c) == calls[c] \notin {"idle", "pending"}

Modules == {"contract", "market", "intel", "meme"}

\* line 491: Boolean(bytecode && bytecode !== "0x")
IsContractBytecode(status) == status = "data"

\* lines 492 and 497: !isContract && bytecode === null
NeedsProbeWheneverNotContract(isContract, bytecodeStatus) == ~isContract
NeedsProbe(isContract, bytecodeStatus) == ~isContract /\ bytecodeStatus = "rejected"

\* the market-pair answers drawn for a request
PipelineDsResponses ==
    {[kind |-> "nopair", usd |-> 0, fdv |-> 0], [kind |-> "pair", usd |-> 4000, fdv |-> 2000000]}

\* the intel facts drawn for a request
PipelineIntelFacts(isContract) ==
    {ZeroIntel,
     [frAltLen |-> 3, arkhamEntityType |-> "mixer", gmgnProfitable |-> IF isContract THEN 0 ELSE 8]}

(***************************************************************************)
(* Variables a specification does not use stay at these values             *)
(***************************************************************************)
RiskOff == riskPc = "off"
BundleOff ==
    /\ topHolders = 0
    /\ firstFundingByHolder = <<>>
    /\ bundledSources = <<>>
    /\ bundlePc = "off"
RequestOff ==
    /\ query = "address"
    /\ env = [moralisKey |-> FALSE, aiKey |-> FALSE]
    /\ pc = "off"
    /\ mpc = [m \in Modules |-> "idle"]
    /\ calls = [c \in CallIds |-> "idle"]
    /\ intelPending = 0
    /\ pageCount = 0
    /\ timedOut = FALSE
    /\ reply = [status |-> 0, body |-> "none"]

(***************************************************************************)
(* SpecRisk: the market findings and the score for every module output     *)
(***************************************************************************)
AdapterOff ==
    /\ adapter = "off"
    /\ endpoints = <<>>
    /\ apc = [at |-> 0, i |-> 0, phase |-> "off"]
    /\ requests = <<>>
    /\ adapterResult = "none"

NoResult == [findings |-> <<"none">>, evidence |-> <<"none">>]

AppendOff ==
    /\ evidence = <<>>
    /\ seg = [m \in Modules |-> "off"]
    /\ briefLists = NoResult

NoText == [latin |-> 0, zh |-> 0]
NoNarrative == [isNull |-> TRUE, tldr |-> NoText, explanation |-> NoText]

NarrativeOff ==
    /\ lang = "en"
    /\ llm = [configured |-> FALSE, fetch |-> "ok", body |-> "valid", tldr |-> NoText, explanation |-> NoText]
    /\ aiNarrative = NoNarrative
    /\ narrative = "none"
    /\ npc = "off"

\* the providers of BriefResult.runtime.sources other than the required bsc_rpc
OptionalProviders == {"dexscreener", "moralis", "frontrun", "memeradar", "arkham", "gmgn", "bscscan", "openrouter"}
NoRuntime == [mode |-> "none", status |-> [p \in OptionalProviders |-> "disabled"]]

RuntimeOff ==
    /\ providers = [p \in OptionalProviders |-> "unconfigured"]
    /\ runtime = NoRuntime
    /\ upc = "off"

\* an address as a string: the account it names and whether it is written
\* with upper-case hex digits (checksum form) or all lower-case
Address(id, upper) == [id |-> id, upper |-> upper]
TokenId == 0

HoldersOff ==
    /\ tokenAddress = Address(TokenId, FALSE)
    /\ ownersResp = <<>>
    /\ codeAt = "none"
    /\ candidates = <<>>
    /\ holderList = <<>>
    /\ cpc = "off"

Requests == {1, 2}
NoRun == [caller |-> "", hash |-> "", pc |-> "off", status |-> 0, used |-> FALSE, analysed |-> FALSE]
NoLog == [address |-> "", tokenId |-> 0, amount |-> 0]

AgentRunOff ==
    /\ agent = [visibility |-> "private", rentPriceWei |-> 0, bound |-> FALSE, enabled |-> FALSE]
    /\ chainTx = [status |-> "notFound", to |-> "", from |-> "", value |-> 0, log |-> NoLog]
    /\ runs = [r \in Requests |-> NoRun]
    /\ usedPaymentTx = {}

Users == {"addr1", "addr2"}
ZeroAddress == "0x0"
NoReceipt ==
    [fn |-> "none", from |-> ZeroAddress, to |-> ZeroAddress, value |-> 0, logicOk |-> TRUE,
     status |-> "none", reason |-> "", freeBefore |-> 0, forwarded |-> 0]

NfaOff ==
    /\ freeMintsPerUser = 0
    /\ bonusFreeMints = [u \in Users |-> 0]
    /\ freeMintsClaimed = [u \in Users |-> 0]
    /\ tokens = <<>>
    /\ paused = FALSE
    /\ treasuryBalance = 0
    /\ receipt = NoReceipt

MaxFundTokens == 2
FundTokenIds == 1..MaxFundTokens

\* no BNB anywhere: the mappings of a fresh contract read 0
FundsOff ==
    /\ agentBalance = [t \in FundTokenIds |-> 0]
    /\ contractBalance = 0
    /\ totalFunded = [t \in FundTokenIds |-> 0]
    /\ totalWithdrawn = [t \in FundTokenIds |-> 0]

\* the funding loop has not been entered
FundingOff ==
    /\ fundHolders = <<>>
    /\ holderSet = {}
    /\ fundingByHolder = <<>>
    /\ cursor = FALSE
    /\ fundPageCount = 0
    /\ earliestSender = <<>>
    /\ fundPc = "off"

\* mapLimit has not been called
PoolOff ==
    /\ items = <<>>
    /\ limit = 0
    /\ idx = 0
    /\ out = <<>>
    /\ worker = <<>>
    /\ fnCalls = <<>>
    /\ fnValue = <<>>
    /\ abandoned = {}
    /\ poolPc = "off"

\* runIntelModule has not been called
IntelOff ==
    /\ intelData = <<>>
    /\ intelPc = "off"

\* readStoreFile lines 115-117: what a missing file reads as
EmptyStore == [history |-> <<>>, used |-> <<>>]
NoFile == [history |-> <<>>, used |-> <<"no file">>]

\* no AgentStore operation has been called
StoreOff ==
    /\ storeFile = EmptyStore
    /\ tmpFile = NoFile
    /\ ops = <<>>

LaterOff == FundingOff /\ PoolOff /\ IntelOff /\ StoreOff

ExtraOff ==
    /\ AdapterOff /\ AppendOff /\ NarrativeOff /\ RuntimeOff /\ HoldersOff /\ AgentRunOff /\ NfaOff /\ FundsOff
    /\ LaterOff

InitRisk ==
    /\ riskPc = "start"
    /\ \E b \in BOOLEAN :
        /\ resolved = (IF b THEN ContractTarget ELSE WalletTarget)
        /\ intel \in IntelFacts(b)
        /\ meme \in MemeResults(b)
    /\ dsResponse \in DsResponses
    /\ dex = DexNone
    /\ findings = <<>>
    /\ score = 0
    /\ BundleOff
    /\ RequestOff
    /\ ExtraOff

RiskRunMarket ==
    /\ riskPc = "start"
    /\ dex' = MarketDex(dsResponse)
    /\ findings' = findings \o MarketFindings(resolved, MarketDex(dsResponse))
    /\ riskPc' = "market"
    /\ UNCHANGED <<resolved, dsResponse, intel, meme, score, xvars, bvars, pvars>>

RiskRunScore ==
    /\ riskPc = "market"
    /\ score' = runRiskModule(resolved, dex, intel, meme)
    /\ riskPc' = "scored"
    /\ UNCHANGED <<resolved, dsResponse, dex, intel, meme, findings, xvars, bvars, pvars>>

NextRisk == RiskRunMarket \/ RiskRunScore

SpecRisk == InitRisk /\ [][NextRisk]_vars

(***************************************************************************)
(* SpecBundle: the grouping and the bundle term for every funding map      *)
(***************************************************************************)
InitBundle ==
    /\ bundlePc = "funded"
    /\ \E c \in [Sources -> 0..MaxPerSource], u \in 0..MaxUnfunded, order \in {"grouped", "interleaved"} :
        /\ SumCounts(c, NumSources) >= 1
        /\ SumCounts(c, NumSources) + u <= MaxTopHolders
        /\ topHolders = SumCounts(c, NumSources) + u
        /\ firstFundingByHolder =
              FundingMap(IF order = "grouped" THEN GroupedValues(c, 1) ELSE InterleavedValues(c, 1))
    /\ bundledSources = <<>>
    /\ resolved = ContractTarget
    /\ dex = DexNone
    /\ intel = ZeroIntel
    /\ meme = MemeNull
    /\ findings = <<>>
    /\ score = 0
    /\ dsResponse = [kind |-> "error", usd |-> 0, fdv |-> 0]
    /\ RiskOff
    /\ RequestOff
    /\ ExtraOff

\* lines 1006-1069
BundleGroup ==
    /\ bundlePc = "funded"
    /\ bundledSources' = BundledSources(firstFundingByHolder)
    /\ meme' = MemeResult(BundledSources(firstFundingByHolder))
    /\ bundlePc' = "grouped"
    /\ UNCHANGED <<resolved, dex, intel, findings, score, topHolders, firstFundingByHolder, xvars, rvars, pvars>>

\* line 1489
BundleRunScore ==
    /\ bundlePc = "grouped"
    /\ score' = runRiskModule(resolved, dex, intel, meme)
    /\ bundlePc' = "scored"
    /\ UNCHANGED <<resolved, dex, intel, meme, findings, topHolders, firstFundingByHolder, bundledSources, xvars, rvars, pvars>>

NextBundle == BundleGroup \/ BundleRunScore

SpecBundle == InitBundle /\ [][NextBundle]_vars

(***************************************************************************)
(* Spec: one POST /api/brief request                                       *)
(***************************************************************************)
Init ==
    /\ query \in {"empty", "noAddress", "address"}
    /\ env \in [moralisKey : BOOLEAN, aiKey : BOOLEAN]
    /\ dsResponse \in PipelineDsResponses
    /\ pc = "start"
    /\ mpc = [m \in Modules |-> "idle"]
    /\ calls = [c \in CallIds |-> "idle"]
    /\ intelPending = 0
    /\ pageCount = 0
    /\ timedOut = FALSE
    /\ reply = [status |-> 0, body |-> "none"]
    /\ resolved = NotResolved
    /\ dex = DexNone
    /\ intel = ZeroIntel
    /\ meme = MemeNull
    /\ findings = <<>>
    /\ score = 0
    /\ RiskOff
    /\ BundleOff
    /\ ExtraOff

\* routes/brief.ts lines 10-13: whatever analyzeBrief throws is sent as 400
Throw ==
    /\ pc' = "replied"
    /\ reply' = [status |-> 400, body |-> "error"]

\* routes/brief.ts line 9
Reply200 ==
    /\ pc' = "replied"
    /\ reply' = [status |-> 200, body |-> "BriefResult"]

\* routes/brief.ts lines 5-8, analyzeBrief line 1479, runResolveModule lines
\* 467-489
HandleRequest ==
    /\ pc = "start"
    /\ IF query # "address"
       THEN Throw /\ UNCHANGED calls
       ELSE /\ calls' = [calls EXCEPT !["getBytecode"] = "pending", !["getBalance"] = "pending",
                                      !["getTransactionCount"] = "pending"]
            /\ pc' = "resolveRpc"
            /\ UNCHANGED reply
    /\ UNCHANGED <<facts, xvars, rvars, bvars, query, env, mpc, intelPending, pageCount, timedOut>>

\* runResolveModule lines 501-504 and analyzeBrief lines 1479-1487: the
\* target is fixed and the four modules run up to their first await
FinishResolve(isContract, callsNow) ==
    /\ resolved' = (IF isContract THEN ContractTarget ELSE WalletTarget)
    /\ pc' = "enrich"
    /\ mpc' = [contract |-> IF isContract THEN "tokenReads" ELSE "done",
               market |-> "dex",
               intel |-> "calls",
               meme |-> IF isContract /\ env.moralisKey THEN "owners" ELSE "done"]
    /\ calls' = [callsNow EXCEPT
                   !["tokenReads"] = IF isContract THEN "pending" ELSE @,
                   !["marketDex"] = "pending",
                   !["tokenOwners"] = IF isContract /\ env.moralisKey THEN "pending" ELSE @]
    /\ intelPending' = NumIntelCalls

\* runResolveModule lines 485-496
ResolveAfterRpc ==
    /\ pc = "resolveRpc"
    /\ Settled("getBytecode") /\ Settled("getBalance") /\ Settled("getTransactionCount")
    /\ IF \E c \in {"getBytecode", "getBalance", "getTransactionCount"} :
            calls[c] = "rejected" /\ ~Caught(c)
       THEN Throw /\ UNCHANGED <<resolved, mpc, calls, intelPending>>
       ELSE LET isContract == IsContractBytecode(calls["getBytecode"])
                    read == [calls EXCEPT !["getBalance"] = "idle", !["getTransactionCount"] = "idle"]
                IN  IF NeedsProbe(isContract, calls["getBytecode"])
                    THEN /\ calls' = [read EXCEPT !["tokenMetadataProbe"] = "pending"]
                         /\ pc' = "resolveMeta"
                         /\ UNCHANGED <<resolved, mpc, intelPending, reply>>
                    ELSE FinishResolve(isContract, read) /\ UNCHANGED reply
    /\ UNCHANGED <<dex, intel, meme, findings, score, xvars, rvars, bvars, query, env, pageCount, timedOut>>

\* runResolveModule lines 493-500
ResolveAfterMeta ==
    /\ pc = "resolveMeta"
    /\ Settled("tokenMetadataProbe")
    /\ IF calls["tokenMetadataProbe"] = "rejected" /\ ~Caught("tokenMetadataProbe")
       THEN Throw /\ UNCHANGED <<resolved, mpc, calls, intelPending>>
       ELSE LET isContract == calls["tokenMetadataProbe"] = "data"
            IN  IF NeedsProbe(isContract, calls["getBytecode"])
                THEN /\ calls' = [calls EXCEPT !["dexProbe"] = "pending"]
                     /\ pc' = "resolveDex"
                     /\ UNCHANGED <<resolved, mpc, intelPending, reply>>
                ELSE FinishResolve(isContract, calls) /\ UNCHANGED reply
    /\ UNCHANGED <<dex, intel, meme, findings, score, xvars, rvars, bvars, query, env, pageCount, timedOut>>

\* runResolveModule lines 498-504
ResolveAfterDex ==
    /\ pc = "resolveDex"
    /\ Settled("dexProbe")
    /\ IF calls["dexProbe"] = "rejected" /\ ~Caught("dexProbe")
       THEN Throw /\ UNCHANGED <<resolved, mpc, calls, intelPending>>
       ELSE FinishResolve(calls["dexProbe"] = "data", calls) /\ UNCHANGED reply
    /\ UNCHANGED <<dex, intel, meme, findings, score, xvars, rvars, bvars, query, env, pageCount, timedOut>>

\* a rejection no handler catches rejects Promise.all (line 1482)
ModuleThrows(c) == calls[c] = "rejected" /\ ~Caught(c)

\* runContractModule lines 561-602
ContractAfterTokenReads ==
    /\ pc = "enrich" /\ mpc["contract"] = "tokenReads"
    /\ Settled("tokenReads")
    /\ calls' = [calls EXCEPT !["tokenReads"] = "idle", !["ownerRead"] = "pending"]
    /\ mpc' = [mpc EXCEPT !["contract"] = "ownerRead"]
    /\ UNCHANGED <<facts, xvars, rvars, bvars, query, env, pc, intelPending, pageCount, timedOut, reply>>

\* runContractModule lines 602-629
ContractAfterOwner ==
    /\ pc = "enrich" /\ mpc["contract"] = "ownerRead"
    /\ Settled("ownerRead")
    /\ IF ModuleThrows("ownerRead")
       THEN Throw /\ UNCHANGED <<mpc, calls>>
       ELSE /\ mpc' = [mpc EXCEPT !["contract"] = "done"]
            /\ calls' = [calls EXCEPT !["ownerRead"] = "idle"]
            /\ UNCHANGED <<pc, reply>>
    /\ UNCHANGED <<facts, xvars, rvars, bvars, query, env, intelPending, pageCount, timedOut>>

\* runMarketModule lines 634-715
MarketAfterDex ==
    /\ pc = "enrich" /\ mpc["market"] = "dex"
    /\ Settled("marketDex")
    /\ IF ModuleThrows("marketDex")
       THEN Throw /\ UNCHANGED <<mpc, dex, calls>>
       ELSE /\ dex' = (IF calls["marketDex"] = "rejected" THEN DexNone ELSE MarketDex(dsResponse))
            /\ mpc' = [mpc EXCEPT !["market"] = "done"]
            /\ calls' = [calls EXCEPT !["marketDex"] = "idle"]
            /\ UNCHANGED <<pc, reply>>
    /\ UNCHANGED <<resolved, intel, meme, findings, score, xvars, rvars, bvars, query, env,
                   intelPending, pageCount, timedOut>>

\* runIntelModule lines 720-921: every entry of the Promise.all has settled
IntelAfterAll ==
    /\ pc = "enrich" /\ mpc["intel"] = "calls"
    /\ intelPending = 0
    /\ intel' \in PipelineIntelFacts(resolved.isContract)
    /\ mpc' = [mpc EXCEPT !["intel"] = "done"]
    /\ UNCHANGED <<resolved, dex, meme, findings, score, xvars, rvars, bvars, query, env, pc, calls,
                   intelPending, pageCount, timedOut, reply>>

MemeDone(result) ==
    /\ meme' = result
    /\ mpc' = [mpc EXCEPT !["meme"] = "done"]

\* runMemeModule lines 934-952
MemeAfterOwners ==
    /\ pc = "enrich" /\ mpc["meme"] = "owners"
    /\ Settled("tokenOwners")
    /\ IF ModuleThrows("tokenOwners")
       THEN Throw /\ UNCHANGED <<mpc, meme, calls>>
       ELSE /\ UNCHANGED <<pc, reply>>
            /\ \/ /\ calls["tokenOwners"] = "data"
                  /\ calls' = [calls EXCEPT !["tokenOwners"] = "idle", !["holderBytecode"] = "pending"]
                  /\ mpc' = [mpc EXCEPT !["meme"] = "bytecode"]
                  /\ UNCHANGED meme
               \* no owners, or no candidate besides the token itself
               \/ /\ MemeDone(MemeNull)
                  /\ calls' = [calls EXCEPT !["tokenOwners"] = "idle"]
    /\ UNCHANGED <<resolved, dex, intel, findings, score, xvars, rvars, bvars, query, env, intelPending,
                   pageCount, timedOut>>

\* runMemeModule lines 952-961
MemeAfterBytecode ==
    /\ pc = "enrich" /\ mpc["meme"] = "bytecode"
    /\ Settled("holderBytecode")
    /\ IF calls["holderBytecode"] = "data"
       THEN /\ calls' = [calls EXCEPT !["holderBytecode"] = "idle", !["holderProfiles"] = "pending"]
            /\ mpc' = [mpc EXCEPT !["meme"] = "profiles"]
            /\ UNCHANGED meme
       ELSE MemeDone(MemeNull) /\ calls' = [calls EXCEPT !["holderBytecode"] = "idle"]
    /\ UNCHANGED <<resolved, dex, intel, findings, score, xvars, rvars, bvars, query, env, pc, intelPending,
                   pageCount, timedOut, reply>>

\* runMemeModule lines 959-992: the first pass of the while loop
MemeAfterProfiles ==
    /\ pc = "enrich" /\ mpc["meme"] = "profiles"
    /\ Settled("holderProfiles")
    /\ pageCount' = 1
    /\ calls' = [calls EXCEPT !["holderProfiles"] = "idle", !["transfersPage"] = "pending"]
    /\ mpc' = [mpc EXCEPT !["meme"] = "pages"]
    /\ UNCHANGED <<facts, xvars, rvars, bvars, query, env, pc, intelPending, timedOut, reply>>

\* runMemeModule lines 981-1069: a page has settled; the loop goes round
\* again or ends and the holders are grouped
MemeAfterPage ==
    /\ pc = "enrich" /\ mpc["meme"] = "pages"
    /\ Settled("transfersPage")
    /\ IF ModuleThrows("transfersPage")
       THEN Throw /\ UNCHANGED <<mpc, meme, calls, pageCount>>
       ELSE /\ UNCHANGED <<pc, reply>>
            /\ \/ /\ calls["transfersPage"] = "data"
                  /\ pageCount < MaxPages
                  \* some top holder is still without a funder
                  /\ pageCount' = pageCount + 1
                  /\ calls' = [calls EXCEPT !["transfersPage"] = "pending"]
                  /\ UNCHANGED <<mpc, meme>>
               \/ /\ calls["transfersPage"] \in {"data", "last"}
                  /\ \E c \in 0..1 : MemeDone([isNull |-> FALSE, bundleGroupCount |-> c])
                  /\ calls' = [calls EXCEPT !["transfersPage"] = "idle"]
                  /\ UNCHANGED pageCount
               \/ /\ calls["transfersPage"] \in {"empty", "rejected"}
                  /\ \E c \in 0..(IF pageCount > 1 THEN 1 ELSE 0) :
                        MemeDone([isNull |-> FALSE, bundleGroupCount |-> c])
                  /\ calls' = [calls EXCEPT !["transfersPage"] = "idle"]
                  /\ UNCHANGED pageCount
    /\ UNCHANGED <<resolved, dex, intel, findings, score, xvars, rvars, bvars, query, env, intelPending, timedOut>>

\* analyzeBrief lines 1489-1499 and summarizeNarrativeWithAi lines 1215-1285
AfterEnrichmentOnFirstDone ==
    /\ pc = "enrich"
    /\ \E m \in Modules : mpc[m] = "done"
    /\ score' = runRiskModule(resolved, dex, intel, meme)
    /\ IF env.aiKey
       THEN /\ calls' = [calls EXCEPT !["aiFetch"] = "pending"]
            /\ pc' = "aiFetch"
            /\ UNCHANGED reply
       ELSE Reply200 /\ UNCHANGED calls
    /\ UNCHANGED <<resolved, dex, intel, meme, findings, xvars, rvars, bvars, query, env, mpc, intelPending,
                   pageCount, timedOut>>

AfterEnrichment ==
    /\ pc = "enrich"
    /\ \A m \in Modules : mpc[m] = "done"
    /\ score' = runRiskModule(resolved, dex, intel, meme)
    /\ IF env.aiKey
       THEN /\ calls' = [calls EXCEPT !["aiFetch"] = "pending"]
            /\ pc' = "aiFetch"
            /\ UNCHANGED reply
       ELSE Reply200 /\ UNCHANGED calls
    /\ UNCHANGED <<resolved, dex, intel, meme, findings, xvars, rvars, bvars, query, env, mpc, intelPending,
                   pageCount, timedOut>>

\* summarizeNarrativeWithAi lines 1271-1287, analyzeBrief line 1499
AiAfterFetch ==
    /\ pc = "aiFetch"
    /\ Settled("aiFetch")
    /\ IF calls["aiFetch"] = "rejected"
       THEN (IF Caught("aiFetch") THEN Reply200 ELSE Throw) /\ UNCHANGED calls
       ELSE /\ calls' = [calls EXCEPT !["aiBody"] = "pending"]
            /\ pc' = "aiBody"
            /\ UNCHANGED reply
    /\ UNCHANGED <<facts, xvars, rvars, bvars, query, env, mpc, intelPending, pageCount, timedOut>>

\* summarizeNarrativeWithAi lines 1287-1318, analyzeBrief lines 1499-1581
AiAfterBody ==
    /\ pc = "aiBody"
    /\ Settled("aiBody")
    /\ IF calls["aiBody"] = "rejected" /\ ~Caught("aiBody") THEN Throw ELSE Reply200
    /\ UNCHANGED <<facts, xvars, rvars, bvars, query, env, mpc, calls, intelPending, pageCount, timedOut>>

\* the remote end answers, or the call fails
Respond(c) ==
    /\ pc # "replied"
    /\ calls[c] = "pending"
    /\ \E r \in Outcomes(c, env, dsResponse) : calls' = [calls EXCEPT ![c] = r]
    /\ UNCHANGED <<facts, xvars, rvars, bvars, query, env, pc, mpc, intelPending, pageCount, timedOut, reply>>

\* withTimeout lines 160-169: the timer fires before the call settles
TimerFires(c) ==
    /\ pc # "replied"
    /\ c \in TimedCalls
    /\ calls[c] = "pending"
    /\ calls' = [calls EXCEPT ![c] = "rejected"]
    /\ timedOut' = TRUE
    /\ UNCHANGED <<facts, xvars, rvars, bvars, query, env, pc, mpc, intelPending, pageCount, reply>>

\* one call of runIntelModule settles (each has its own .catch)
IntelRespond ==
    /\ pc = "enrich" /\ mpc["intel"] = "calls"
    /\ intelPending > 0
    /\ intelPending' = intelPending - 1
    /\ UNCHANGED <<facts, xvars, rvars, bvars, query, env, pc, mpc, calls, pageCount, timedOut, reply>>

\* the withTimeout timer of one call of runIntelModule fires
IntelTimerFires ==
    /\ pc = "enrich" /\ mpc["intel"] = "calls"
    /\ intelPending > 0
    /\ intelPending' = intelPending - 1
    /\ timedOut' = TRUE
    /\ UNCHANGED <<facts, xvars, rvars, bvars, query, env, pc, mpc, calls, pageCount, reply>>

ProgramStep ==
    \/ HandleRequest
    \/ ResolveAfterRpc
    \/ ResolveAfterMeta
    \/ ResolveAfterDex
    \/ ContractAfterTokenReads
    \/ ContractAfterOwner
    \/ MarketAfterDex
    \/ IntelAfterAll
    \/ MemeAfterOwners
    \/ MemeAfterBytecode
    \/ MemeAfterProfiles
    \/ MemeAfterPage
    \/ AfterEnrichment
    \/ AiAfterFetch
    \/ AiAfterBody

TimerStep == (\E c \in CallIds : TimerFires(c)) \/ IntelTimerFires

RemoteStep == (\E c \in CallIds : Respond(c)) \/ IntelRespond

Next == ProgramStep \/ TimerStep \/ RemoteStep

Spec == Init /\ [][Next]_vars

\* The event loop runs every continuation that is ready, and every timer
\* that is armed fires unless its call settles first; nothing makes a remote
\* end answer.
FairSpec == Spec /\ WF_vars(ProgramStep) /\ WF_vars(TimerStep)

(***************************************************************************)
(* SpecAdapter: the provider adapters that issue more than one request     *)
(* (providers: fetchList over fetchJsonWithRetry; briefService:            *)
(* fetchFrontrunWalletMetadata)                                            *)
(***************************************************************************)
\* resolveEndpoints: BSCSCAN_BASE, when set, then the four defaults
ScanDefaults == <<"etherscan-v2", "bscscan-v2", "bscscan-legacy", "etherscan-legacy">>
ScanEndpoints(envBase) == IF envBase THEN <<"BSCSCAN_BASE">> \o ScanDefaults ELSE ScanDefaults

\* both walk the endpoints with fetchJsonWithRetry
ScanAdapters == {"fetchList", "fetchContractCreation"}

\* batch-query first, then single-query
FrontrunEndpoints == <<"batch-query", "single-query">>

\* fetchJsonWithRetry: for (let i = 0; i < 2; i++)
MaxAttempts == 2

\* how a request can end: without an OK response (!res?.ok: the fetch
\* rejects on a network error or on the abort timer of fetchJsonWithRetry, or
\* the status is not OK), with a body that is not JSON, or with JSON read
RequestFailures == {"noOkResponse", "badJson"}
ScanOutcomes == RequestFailures \cup {"errorResult", "rows", "noTx"}
FrontrunOutcomes == RequestFailures \cup {"noProfile", "profile"}

\* fetchJsonWithRetry line 267: the loop goes round again
MayRetryOnceMore(i) == i < MaxAttempts
MayRetry(i) == i + 1 < MaxAttempts

LastRequest == requests[Len(requests)]

\* fetch(url, ...) is called
Issue(endpoint) == Append(requests, [endpoint |-> endpoint, outcome |-> "pending"])

AdapterReturn(result) ==
    /\ adapterResult' = result
    /\ apc' = [apc EXCEPT !.phase = "returned"]

InitAdapter ==
    /\ \/ \E name \in ScanAdapters, configured \in BOOLEAN, envBase \in BOOLEAN :
            /\ adapter = [name |-> name, configured |-> configured]
            /\ endpoints = ScanEndpoints(envBase)
       \/ \E configured \in BOOLEAN :
            /\ adapter = [name |-> "fetchFrontrunWalletMetadata", configured |-> configured]
            /\ endpoints = FrontrunEndpoints
    /\ apc = [at |-> 0, i |-> 0, phase |-> "start"]
    /\ requests = <<>>
    /\ adapterResult = "none"
    /\ resolved = NotResolved
    /\ dex = DexNone
    /\ intel = ZeroIntel
    /\ meme = MemeNull
    /\ findings = <<>>
    /\ score = 0
    /\ dsResponse = [kind |-> "nopair", usd |-> 0, fdv |-> 0]
    /\ RiskOff
    /\ BundleOff
    /\ RequestOff
    /\ AppendOff
    /\ NarrativeOff
    /\ RuntimeOff
    /\ HoldersOff
    /\ AgentRunOff
    /\ NfaOff
    /\ FundsOff
    /\ LaterOff

\* fetchList lines 290-307, fetchContractCreation lines 325-337, with
\* fetchJsonWithRetry lines 267-275;
\* fetchFrontrunWalletMetadata lines 353-371
AdapterStart ==
    /\ apc.phase = "start"
    /\ IF ~adapter.configured
       THEN AdapterReturn("null") /\ UNCHANGED requests
       ELSE /\ requests' = Issue(endpoints[1])
            /\ apc' = [at |-> 1, i |-> 0, phase |-> "wait"]
            /\ UNCHANGED adapterResult
    /\ UNCHANGED <<facts, rvars, bvars, pvars, fvars, nvars, uvars, cvars, gvars, kvars, wvars, yvars, adapter, endpoints>>

\* the remote end answers, or the request fails
AdapterRespond ==
    /\ apc.phase = "wait"
    /\ LastRequest.outcome = "pending"
    /\ \E o \in (IF adapter.name \in ScanAdapters THEN ScanOutcomes ELSE FrontrunOutcomes) :
          requests' = [requests EXCEPT ![Len(requests)].outcome = o]
    /\ UNCHANGED <<facts, rvars, bvars, pvars, fvars, nvars, uvars, cvars, gvars, kvars, wvars, yvars, adapter, endpoints, apc, adapterResult>>

\* fetchJsonWithRetry line 269: the 4.5 s timer aborts the fetch
AdapterAbort ==
    /\ apc.phase = "wait"
    /\ adapter.name \in ScanAdapters
    /\ LastRequest.outcome = "pending"
    /\ requests' = [requests EXCEPT ![Len(requests)].outcome = "noOkResponse"]
    /\ UNCHANGED <<facts, rvars, bvars, pvars, fvars, nvars, uvars, cvars, gvars, kvars, wvars, yvars, adapter, endpoints, apc, adapterResult>>

\* fetchList lines 293-321, fetchContractCreation lines 328-362: go on to the next endpoint, or give up
NextEndpoint ==
    IF apc.at < Len(endpoints)
    THEN /\ requests' = Issue(endpoints[apc.at + 1])
         /\ apc' = [at |-> apc.at + 1, i |-> 0, phase |-> "wait"]
         /\ UNCHANGED adapterResult
    ELSE AdapterReturn("null") /\ UNCHANGED requests

\* fetchJsonWithRetry lines 276-281; fetchList lines 307-321,
\* fetchContractCreation lines 337-361
ScanContinue ==
    /\ apc.phase = "wait"
    /\ adapter.name \in ScanAdapters
    /\ LastRequest.outcome # "pending"
    /\ CASE LastRequest.outcome \in RequestFailures ->
              IF MayRetry(apc.i)
              THEN /\ requests' = Issue(endpoints[apc.at])
                   /\ apc' = [apc EXCEPT !.i = apc.i + 1]
                   /\ UNCHANGED adapterResult
              ELSE NextEndpoint
         [] LastRequest.outcome = "errorResult" -> NextEndpoint
         [] LastRequest.outcome = "rows" -> AdapterReturn("rows") /\ UNCHANGED requests
         \* "no transactions found": [] for fetchList, null for fetchContractCreation
         [] LastRequest.outcome = "noTx" ->
              AdapterReturn(IF adapter.name = "fetchList" THEN "empty" ELSE "null") /\ UNCHANGED requests
    /\ UNCHANGED <<facts, rvars, bvars, pvars, fvars, nvars, uvars, cvars, gvars, kvars, wvars, yvars, adapter, endpoints>>

\* fetchFrontrunWalletMetadata lines 372-390
FrontrunContinue ==
    /\ apc.phase = "wait"
    /\ adapter.name = "fetchFrontrunWalletMetadata"
    /\ LastRequest.outcome # "pending"
    /\ IF LastRequest.outcome = "profile"
       THEN AdapterReturn("profile") /\ UNCHANGED requests
       ELSE IF apc.at = 1
            THEN /\ requests' = Issue(endpoints[2])
                 /\ apc' = [apc EXCEPT !.at = 2]
                 /\ UNCHANGED adapterResult
            ELSE AdapterReturn("null") /\ UNCHANGED requests
    /\ UNCHANGED <<facts, rvars, bvars, pvars, fvars, nvars, uvars, cvars, gvars, kvars, wvars, yvars, adapter, endpoints>>

NextAdapter ==
    \/ AdapterStart
    \/ AdapterRespond
    \/ AdapterAbort
    \/ ScanContinue
    \/ FrontrunContinue

SpecAdapter == InitAdapter /\ [][NextAdapter]_vars

(***************************************************************************)
(* SpecAppend: the four enrichment modules append to the shared findings   *)
(* and evidence lists of one request; analyzeBrief returns their heads     *)
(***************************************************************************)
\* analyzeBrief lines 1530-1531: slice(0, 10)
MaxFindings == 10
MaxEvidence == 10

\* the findings runIntelModule can push for one target (lines 744-919): label,
\* verified, best asset, related addresses, tags, three for Arkham, explorer
\* activity, and two for a wallet's portfolio or one for a token's trades
MaxIntelFindings(isContract) == IF isContract THEN 10 ELSE 11
\* its evidence: label source, Arkham, and the portfolio or the token page
MaxIntelEvidence == 3

\* n entries appended by one module
Push(list, module, n) == list \o [k \in 1..n |-> module]

\* the lists of the BriefResult
ResultFindingsUncapped(list) == list
ResultFindings(list) == SliceFirst(list, MaxFindings)
ResultEvidence(list) == SliceFirst(list, MaxEvidence)

InitAppend ==
    /\ resolved \in {ContractTarget, WalletTarget}
    /\ findings = <<>>
    /\ evidence = <<>>
    /\ seg = [m \in Modules |-> "idle"]
    /\ briefLists = NoResult
    /\ dex = DexNone
    /\ intel = ZeroIntel
    /\ meme = MemeNull
    /\ score = 0
    /\ dsResponse = [kind |-> "nopair", usd |-> 0, fdv |-> 0]
    /\ RiskOff
    /\ BundleOff
    /\ RequestOff
    /\ AdapterOff
    /\ NarrativeOff
    /\ RuntimeOff
    /\ HoldersOff
    /\ AgentRunOff
    /\ NfaOff
    /\ FundsOff
    /\ LaterOff

\* analyzeBrief lines 1480-1487: the explorer link, then each module runs up
\* to its first await; runContractModule lines 514-551 for a wallet
AppendStart ==
    /\ seg["contract"] = "idle"
    /\ evidence' = Push(evidence, "analyzeBrief", 1)
    /\ \E lowBalance \in 0..1, txCountFinding \in 0..1, moralisKey \in BOOLEAN :
          /\ findings' = (IF resolved.isContract THEN findings
                          ELSE Push(findings, "contract", lowBalance + txCountFinding))
          /\ seg' = [contract |-> IF resolved.isContract THEN "tokenReads" ELSE "done",
                     market |-> "dex",
                     intel |-> "calls",
                     meme |-> IF resolved.isContract /\ moralisKey THEN "owners" ELSE "done"]
    /\ UNCHANGED <<resolved, dex, intel, meme, score, rvars, bvars, pvars, avars, nvars, uvars, cvars, gvars, kvars, wvars, yvars, briefLists>>

\* runContractModule lines 561-602: the token finding or the generic one
AppendTokenFinding ==
    /\ seg["contract"] = "tokenReads"
    /\ findings' = Push(findings, "contract", 1)
    /\ seg' = [seg EXCEPT !["contract"] = "ownerRead"]
    /\ UNCHANGED <<resolved, dex, intel, meme, score, rvars, bvars, pvars, avars, nvars, uvars, cvars, gvars, kvars, wvars, yvars, evidence, briefLists>>

\* runContractModule lines 602-629: no owner(), the zero owner, or an owner
AppendOwnerFinding ==
    /\ seg["contract"] = "ownerRead"
    /\ \E owner \in {"none", "zero", "owner"} :
          /\ findings' = Push(findings, "contract", IF owner = "none" THEN 0 ELSE 1)
          /\ evidence' = Push(evidence, "contract", IF owner = "owner" THEN 1 ELSE 0)
    /\ seg' = [seg EXCEPT !["contract"] = "done"]
    /\ UNCHANGED <<resolved, dex, intel, meme, score, rvars, bvars, pvars, avars, nvars, uvars, cvars, gvars, kvars, wvars, yvars, briefLists>>

\* runMarketModule lines 636-715: up to two links for a pair, then the
\* findings of a contract target
AppendMarket ==
    /\ seg["market"] = "dex"
    /\ \E ds \in PipelineDsResponses \cup {[kind |-> "error", usd |-> 0, fdv |-> 0]} :
       \E links \in 0..2 :
          /\ evidence' = Push(evidence, "market", IF ds.kind = "pair" THEN links ELSE 0)
          /\ findings' = Push(findings, "market", Len(MarketFindings(resolved, MarketDex(ds))))
    /\ seg' = [seg EXCEPT !["market"] = "done"]
    /\ UNCHANGED <<resolved, dex, intel, meme, score, rvars, bvars, pvars, avars, nvars, uvars, cvars, gvars, kvars, wvars, yvars, briefLists>>

\* runIntelModule lines 720-921
AppendIntel ==
    /\ seg["intel"] = "calls"
    /\ \E n \in 0..MaxIntelFindings(resolved.isContract), m \in 0..MaxIntelEvidence :
          /\ findings' = Push(findings, "intel", n)
          /\ evidence' = Push(evidence, "intel", m)
    /\ seg' = [seg EXCEPT !["intel"] = "done"]
    /\ UNCHANGED <<resolved, dex, intel, meme, score, rvars, bvars, pvars, avars, nvars, uvars, cvars, gvars, kvars, wvars, yvars, briefLists>>

\* runMemeModule lines 934-1069: null, or the scan finding, the smart-money
\* and bundle findings, and the holders link
AppendMeme ==
    /\ seg["meme"] = "owners"
    /\ \/ UNCHANGED <<findings, evidence>>
       \/ \E smart \in 0..1, bundled \in 0..1 :
            /\ findings' = Push(findings, "meme", 1 + smart + bundled)
            /\ evidence' = Push(evidence, "meme", 1)
    /\ seg' = [seg EXCEPT !["meme"] = "done"]
    /\ UNCHANGED <<resolved, dex, intel, meme, score, rvars, bvars, pvars, avars, nvars, uvars, cvars, gvars, kvars, wvars, yvars, briefLists>>

\* analyzeBrief lines 1482-1487 and 1525-1532
AppendReturn ==
    /\ \A m \in Modules : seg[m] = "done"
    /\ briefLists = NoResult
    /\ briefLists' = [findings |-> ResultFindings(findings), evidence |-> ResultEvidence(evidence)]
    /\ UNCHANGED <<facts, rvars, bvars, pvars, avars, nvars, uvars, cvars, gvars, kvars, wvars, yvars, evidence, seg>>

NextAppend ==
    \/ AppendStart
    \/ AppendTokenFinding
    \/ AppendOwnerFinding
    \/ AppendMarket
    \/ AppendIntel
    \/ AppendMeme
    \/ AppendReturn

SpecAppend == InitAppend /\ [][NextAppend]_vars

(***************************************************************************)
(* SpecNarrative: summarizeNarrativeWithAi and the choice of analyzeBrief   *)
(***************************************************************************)
Locales == {"en", "zh-CN", "zh-TW", "ko"}

\* a text, by the counts looksMostlyLatinText takes of it: letters A-Za-z
\* and characters U+4E00..U+9FFF
LatinCounts == {0, 23, 24, 25, 60}
ZhCounts == {0, 11, 12, 13, 40}
Texts == [latin : LatinCounts, zh : ZhCounts]

\* the response of the endpoint: the fetch rejects (or the 4.5 s timer wins),
\* the status is not OK, or it is OK
FetchKinds == {"rejected", "notOk", "ok"}
\* the body: not JSON, without choices, with empty content, with content
\* that is not JSON, with JSON of another shape or over-long fields, or with
\* a valid {tldr, explanation}
BodyKinds == {"badJson", "noChoices", "emptyContent", "contentNotJson", "wrongShape", "valid"}

\* looksMostlyLatinText lines 1198-1205
looksMostlyLatinTextAbove24(s) == s.latin > 24 /\ s.latin > s.zh * 2
looksMostlyLatinText(s) == s.latin >= 24 /\ s.latin > s.zh * 2

\* summarizeNarrativeWithAi lines 1215-1318 with the catch of line 1499
summarizeNarrativeWithAi(l) ==
    IF ~l.configured THEN NoNarrative
    ELSE IF l.fetch = "rejected" THEN NoNarrative
    ELSE IF l.fetch = "notOk" \/ l.body # "valid" THEN NoNarrative
    ELSE [isNull |-> FALSE, tldr |-> l.tldr, explanation |-> l.explanation]

\* analyzeBrief lines 1501-1506
aiNarrativeUsable(locale, ai) ==
    /\ ~ai.isNull
    /\ ~(/\ locale \in {"zh-CN", "zh-TW"}
         /\ (looksMostlyLatinText(ai.tldr) \/ looksMostlyLatinText(ai.explanation)))

InitNarrative ==
    /\ lang \in Locales
    /\ llm \in [configured : BOOLEAN, fetch : FetchKinds, body : BodyKinds,
                tldr : Texts, explanation : {[latin |-> 0, zh |-> 40], [latin |-> 60, zh |-> 0]}]
    /\ aiNarrative = NoNarrative
    /\ narrative = "none"
    /\ npc = "summarize"
    /\ resolved = NotResolved
    /\ dex = DexNone
    /\ intel = ZeroIntel
    /\ meme = MemeNull
    /\ findings = <<>>
    /\ score = 0
    /\ dsResponse = [kind |-> "nopair", usd |-> 0, fdv |-> 0]
    /\ RiskOff
    /\ BundleOff
    /\ RequestOff
    /\ AdapterOff
    /\ AppendOff
    /\ RuntimeOff
    /\ HoldersOff
    /\ AgentRunOff
    /\ NfaOff
    /\ FundsOff
    /\ LaterOff

\* analyzeBrief lines 1492-1499
NarrativeSummarize ==
    /\ npc = "summarize"
    /\ aiNarrative' = summarizeNarrativeWithAi(llm)
    /\ npc' = "select"
    /\ UNCHANGED <<facts, rvars, bvars, pvars, avars, fvars, uvars, cvars, gvars, kvars, wvars, yvars, lang, llm, narrative>>

\* analyzeBrief lines 1501-1509
NarrativeSelect ==
    /\ npc = "select"
    /\ narrative' = (IF aiNarrativeUsable(lang, aiNarrative) THEN "ai" ELSE "fallback")
    /\ npc' = "done"
    /\ UNCHANGED <<facts, rvars, bvars, pvars, avars, fvars, uvars, cvars, gvars, kvars, wvars, yvars, lang, llm, aiNarrative>>

NextNarrative == NarrativeSummarize \/ NarrativeSelect

SpecNarrative == InitNarrative /\ [][NextNarrative]_vars

(***************************************************************************)
(* SpecRuntime: buildRuntimeInfo                                           *)
(***************************************************************************)
\* DexScreener needs no key: runMarketModule sets dex.source = "api" when
\* the request resolved within 3.5 s and leaves "none" otherwise
ProviderStates(p) ==
    IF p = "dexscreener" THEN {"empty", "api"} ELSE {"unconfigured", "empty", "api"}

\* buildRuntimeInfo lines 1336-1369: the status of one source
StatusOf(p, st) ==
    IF p = "moralis" THEN (IF st = "unconfigured" THEN "disabled" ELSE "live")
    ELSE IF st = "api" THEN "live"
    ELSE IF p = "dexscreener" THEN "fallback"
    ELSE IF st = "empty" THEN "fallback"
    ELSE "disabled"

\* buildRuntimeInfo lines 1371-1381
ModeOf(status) ==
    IF \E p \in OptionalProviders : status[p] = "live" THEN "enhanced" ELSE "fallback"

buildRuntimeInfo(prov) ==
    LET status == [p \in OptionalProviders |-> StatusOf(p, prov[p])]
    IN  [mode |-> ModeOf(status), status |-> status]

InitRuntime ==
    /\ providers \in {f \in [OptionalProviders -> {"unconfigured", "empty", "api"}] :
                        \A p \in OptionalProviders : f[p] \in ProviderStates(p)}
    /\ runtime = NoRuntime
    /\ upc = "build"
    /\ resolved = NotResolved
    /\ dex = DexNone
    /\ intel = ZeroIntel
    /\ meme = MemeNull
    /\ findings = <<>>
    /\ score = 0
    /\ dsResponse = [kind |-> "nopair", usd |-> 0, fdv |-> 0]
    /\ RiskOff
    /\ BundleOff
    /\ RequestOff
    /\ AdapterOff
    /\ AppendOff
    /\ NarrativeOff
    /\ HoldersOff
    /\ AgentRunOff
    /\ NfaOff
    /\ FundsOff
    /\ LaterOff

\* analyzeBrief lines 1510-1516
BuildRuntime ==
    /\ upc = "build"
    /\ runtime' = buildRuntimeInfo(providers)
    /\ upc' = "done"
    /\ UNCHANGED <<facts, rvars, bvars, pvars, avars, fvars, nvars, cvars, gvars, kvars, wvars, yvars, providers>>

NextRuntime == BuildRuntime

SpecRuntime == InitRuntime /\ [][NextRuntime]_vars

(***************************************************************************)
(* SpecHolders: the candidate and top-holder lists of runMemeModule        *)
(***************************************************************************)
MaxCandidates == 24
MaxOwners == 26
CodePatterns == {"none", "all", "odd", "firstFive"}

toLowerCase(a) == [a EXCEPT !.upper = FALSE]

\* the filter callback of lines 943-948 over the lower-cased addresses, with
\* the set `unique` threaded through the rows
RECURSIVE FilterOwnersKeepingDuplicates(_, _, _)
FilterOwnersKeepingDuplicates(rows, token, unique) ==
    IF rows = <<>> THEN <<>>
    ELSE LET addr == toLowerCase(Head(rows))
         IN  IF addr = toLowerCase(token)
             THEN FilterOwnersKeepingDuplicates(Tail(rows), token, unique)
             ELSE <<addr>> \o FilterOwnersKeepingDuplicates(Tail(rows), token, unique \cup {addr})

RECURSIVE FilterOwners(_, _, _)
FilterOwners(rows, token, unique) ==
    IF rows = <<>> THEN <<>>
    ELSE LET addr == toLowerCase(Head(rows))
         IN  IF addr = toLowerCase(token) \/ addr \in unique
             THEN FilterOwners(Tail(rows), token, unique)
             ELSE <<addr>> \o FilterOwners(Tail(rows), token, unique \cup {addr})

\* lines 941-949
Candidates(rows, token) == SliceFirst(FilterOwners(rows, token, {}), MaxCandidates)

\* lines 952-955: getBytecode of a candidate, a failed read counting as no code
HasCode(pattern, addr) ==
    CASE pattern = "none" -> FALSE
      [] pattern = "all" -> TRUE
      [] pattern = "odd" -> addr.id % 2 = 1
      [] OTHER -> addr.id <= 5

RECURSIVE FilterWallets(_, _)
FilterWallets(list, pattern) ==
    IF list = <<>> THEN <<>>
    ELSE IF HasCode(pattern, Head(list)) THEN FilterWallets(Tail(list), pattern)
    ELSE <<Head(list)>> \o FilterWallets(Tail(list), pattern)

\* line 956
TopHolders(list, pattern) == SliceFirst(FilterWallets(list, pattern), MaxTopHolders)

InsertAt(list, pos, x) == SubSeq(list, 1, pos - 1) \o <<x>> \o SubSeq(list, pos, Len(list))

\* a holder list of n distinct holders in rank order, with the token's own
\* address (own > 0) or a second row of holder 1 (dup > 0) put in at a place
OwnerRows(n, own, ownUpper, dup, dupUpper) ==
    LET base == [i \in 1..n |-> Address(i, i % 3 = 0)]
        withDup == IF dup > 0 /\ n > 0 THEN InsertAt(base, Min(dup, n + 1), Address(1, dupUpper)) ELSE base
    IN  IF own > 0 THEN InsertAt(withDup, Min(own, Len(withDup) + 1), Address(TokenId, ownUpper)) ELSE withDup

InitHolders ==
    /\ tokenAddress \in {Address(TokenId, FALSE), Address(TokenId, TRUE)}
    /\ \E n \in {0, 1, 12, 13, MaxCandidates - 1, MaxCandidates, MaxCandidates + 1, MaxOwners},
          own \in {0, 1, 3, MaxOwners + 2}, dup \in {0, 2, MaxOwners + 2},
          ownUpper \in BOOLEAN, dupUpper \in BOOLEAN :
            ownersResp = OwnerRows(n, own, ownUpper, dup, dupUpper)
    /\ codeAt \in CodePatterns
    /\ candidates = <<>>
    /\ holderList = <<>>
    /\ cpc = "owners"
    /\ resolved = NotResolved
    /\ dex = DexNone
    /\ intel = ZeroIntel
    /\ meme = MemeNull
    /\ findings = <<>>
    /\ score = 0
    /\ dsResponse = [kind |-> "nopair", usd |-> 0, fdv |-> 0]
    /\ RiskOff
    /\ BundleOff
    /\ RequestOff
    /\ AdapterOff
    /\ AppendOff
    /\ NarrativeOff
    /\ RuntimeOff
    /\ AgentRunOff
    /\ NfaOff
    /\ FundsOff
    /\ LaterOff

\* runMemeModule lines 934-950: the owners arrived; no rows or no candidate
\* returns null
HoldersCandidates ==
    /\ cpc = "owners"
    /\ candidates' = (IF Len(ownersResp) = 0 THEN <<>> ELSE Candidates(ownersResp, tokenAddress))
    /\ cpc' = (IF candidates' = <<>> THEN "null" ELSE "bytecode")
    /\ UNCHANGED <<facts, rvars, bvars, pvars, avars, fvars, nvars, uvars, gvars, kvars, wvars, yvars,
                   tokenAddress, ownersResp, codeAt, holderList>>

\* runMemeModule lines 952-957: all bytecode reads settled
HoldersTop ==
    /\ cpc = "bytecode"
    /\ holderList' = TopHolders(candidates, codeAt)
    /\ cpc' = (IF holderList' = <<>> THEN "null" ELSE "profiles")
    /\ UNCHANGED <<facts, rvars, bvars, pvars, avars, fvars, nvars, uvars, gvars, kvars, wvars, yvars,
                   tokenAddress, ownersResp, codeAt, candidates>>

NextHolders == HoldersCandidates \/ HoldersTop

SpecHolders == InitHolders /\ [][NextHolders]_vars

(***************************************************************************)
(* SpecAgentRun: POST /api/agents/:id/run with payment verification        *)
(***************************************************************************)
OwnerAddress == "0xowner"
NfaContract == "0xnfa"
NfaTokenId == 7
RentWei == 2
Callers == {"", OwnerAddress, "0xalice"}
\* the hash as the body carries it: absent, lower case, upper case
PaymentHashes == {"", "0xab", "0xAB"}

\* agentStore.ts lines 269 and 277; nfaOnchain.ts lines 41-43
normalizeHash(h) == IF h = "0xAB" THEN "0xab" ELSE h

\* the agent with the configuration of the backend: public with rent and
\* bound; unbound; free; private; bound with the on-chain integration off
AgentSetups ==
    { [visibility |-> "public", rentPriceWei |-> RentWei, bound |-> TRUE, enabled |-> TRUE],
      [visibility |-> "public", rentPriceWei |-> RentWei, bound |-> FALSE, enabled |-> TRUE],
      [visibility |-> "public", rentPriceWei |-> 0, bound |-> TRUE, enabled |-> TRUE],
      [visibility |-> "private", rentPriceWei |-> RentWei, bound |-> TRUE, enabled |-> TRUE],
      [visibility |-> "public", rentPriceWei |-> RentWei, bound |-> TRUE, enabled |-> FALSE] }

FundedLogs ==
    { NoLog,
      [address |-> NfaContract, tokenId |-> NfaTokenId, amount |-> RentWei],
      [address |-> "0xother", tokenId |-> NfaTokenId, amount |-> RentWei],
      [address |-> NfaContract, tokenId |-> NfaTokenId + 1, amount |-> RentWei],
      [address |-> NfaContract, tokenId |-> NfaTokenId, amount |-> RentWei - 1] }

ChainTxs ==
    [status : {"success", "reverted", "notFound"}, to : {NfaContract, "0xother"},
     from : {"0xalice", "0xbob"}, value : {RentWei - 1, RentWei}, log : FundedLogs]

\* part_003 line 319
shouldPayForRun(a, caller) ==
    a.visibility = "public" /\ a.rentPriceWei > 0 /\ caller # OwnerAddress

\* verifyRentFundingTx, nfaOnchain.ts lines 105-272: "ok" or the refusal
verifyRentFundingTxAnyValue(a, caller, tx) ==
    IF ~a.enabled THEN "notConfigured"
    ELSE IF tx.status = "notFound" THEN "verifyFailed"
    ELSE IF tx.status # "success" THEN "txFailed"
    ELSE IF tx.to # NfaContract THEN "targetMismatch"
    ELSE IF tx.from # caller THEN "senderMismatch"
    ELSE IF ~(tx.log.address = NfaContract /\ tx.log.tokenId = NfaTokenId
              /\ tx.log.amount >= a.rentPriceWei) THEN "noFundedEvent"
    ELSE "ok"

verifyRentFundingTx(a, caller, tx) ==
    IF ~a.enabled THEN "notConfigured"
    ELSE IF tx.status = "notFound" THEN "verifyFailed"
    ELSE IF tx.status # "success" THEN "txFailed"
    ELSE IF tx.to # NfaContract THEN "targetMismatch"
    ELSE IF tx.from # caller THEN "senderMismatch"
    ELSE IF tx.value < a.rentPriceWei THEN "insufficient"
    ELSE IF ~(tx.log.address = NfaContract /\ tx.log.tokenId = NfaTokenId
              /\ tx.log.amount >= a.rentPriceWei) THEN "noFundedEvent"
    ELSE "ok"

InitAgentRun ==
    /\ agent \in AgentSetups
    /\ chainTx \in ChainTxs
    /\ runs \in [Requests -> {[NoRun EXCEPT !.caller = c, !.hash = h, !.pc = "received"] :
                                c \in Callers, h \in PaymentHashes}]
    /\ runs[2].caller # "" /\ runs[2].hash # ""
    /\ usedPaymentTx = {}
    /\ resolved = NotResolved
    /\ dex = DexNone
    /\ intel = ZeroIntel
    /\ meme = MemeNull
    /\ findings = <<>>
    /\ score = 0
    /\ dsResponse = [kind |-> "nopair", usd |-> 0, fdv |-> 0]
    /\ RiskOff
    /\ BundleOff
    /\ RequestOff
    /\ AdapterOff
    /\ AppendOff
    /\ NarrativeOff
    /\ RuntimeOff
    /\ HoldersOff
    /\ NfaOff
    /\ FundsOff
    /\ LaterOff

Others == <<facts, rvars, bvars, pvars, avars, fvars, nvars, uvars, cvars, kvars, wvars, yvars>>

RunReply(r, code) == runs' = [runs EXCEPT ![r].pc = "replied", ![r].status = code]

\* part_003 lines 310-363: the checks up to and with store.isPaymentTxUsed
RunReceive(r) ==
    /\ runs[r].pc = "received"
    /\ IF ~shouldPayForRun(agent, runs[r].caller)
       THEN runs' = [runs EXCEPT ![r].pc = "analyze"]
       ELSE IF runs[r].caller = "" \/ ~agent.bound \/ runs[r].hash = ""
            THEN RunReply(r, 400)
       ELSE IF normalizeHash(runs[r].hash) \in usedPaymentTx
            THEN runs' = [runs EXCEPT ![r].pc = "replied", ![r].status = 400, ![r].used = TRUE]
       ELSE runs' = [runs EXCEPT ![r].pc = "verify"]
    /\ UNCHANGED <<Others, agent, chainTx, usedPaymentTx>>

\* part_003 lines 364-376: verifyRentFundingTx answered
RunVerify(r) ==
    /\ runs[r].pc = "verify"
    /\ IF verifyRentFundingTx(agent, runs[r].caller, chainTx) = "ok"
       THEN runs' = [runs EXCEPT ![r].pc = "analyze"]
       ELSE RunReply(r, 400)
    /\ UNCHANGED <<Others, agent, chainTx, usedPaymentTx>>

\* part_003 lines 378-399: analyzeBrief, the narrative and the history; a
\* throw of any of them is answered 400 by the catch of line 409
RunAnalyze(r) ==
    /\ runs[r].pc = "analyze"
    /\ \E ok \in BOOLEAN :
         IF ok THEN runs' = [runs EXCEPT ![r].pc = "mark", ![r].analysed = TRUE]
         ELSE runs' = [runs EXCEPT ![r].pc = "replied", ![r].status = 400, ![r].analysed = TRUE]
    /\ UNCHANGED <<Others, agent, chainTx, usedPaymentTx>>

\* part_003 lines 400-408 and agentStore.ts lines 275-283
RunMark(r) ==
    /\ runs[r].pc = "mark"
    /\ usedPaymentTx' = (IF shouldPayForRun(agent, runs[r].caller) /\ runs[r].hash # ""
                         THEN usedPaymentTx \cup {normalizeHash(runs[r].hash)}
                         ELSE usedPaymentTx)
    /\ RunReply(r, 200)
    /\ UNCHANGED <<Others, agent, chainTx>>

NextAgentRun == \E r \in Requests : RunReceive(r) \/ RunVerify(r) \/ RunAnalyze(r) \/ RunMark(r)

SpecAgentRun == InitAgentRun /\ [][NextAgentRun]_vars

(***************************************************************************)
(* SpecNfa: BAP578 createAgent, transfers and the free-mint administration *)
(***************************************************************************)
\* 0.01 ether, amounts being counted in gwei
MINT_FEE == 10000000
DefaultFreeMints == 3
MaxTokens == 4
MaxBonus == 1
MsgValues == {0, MINT_FEE, MINT_FEE + 1}

\* getFreeMints lines 362-366
getFreeMints(user) ==
    LET totalFreeMints == freeMintsPerUser + bonusFreeMints[user]
        claimed == freeMintsClaimed[user]
    IN  IF claimed >= totalFreeMints THEN 0 ELSE totalFreeMints - claimed

\* createAgent lines 151-155
FreeMintsRemainingWithoutBonus(sender) ==
    IF freeMintsPerUser > freeMintsClaimed[sender]
    THEN freeMintsPerUser - freeMintsClaimed[sender] ELSE 0

FreeMintsRemaining(sender) ==
    LET totalFreeMints == freeMintsPerUser + bonusFreeMints[sender]
    IN  IF totalFreeMints > freeMintsClaimed[sender]
        THEN totalFreeMints - freeMintsClaimed[sender] ELSE 0

\* _beforeTokenTransfer lines 372-385
BeforeTokenTransferAllowsAll(from, to, tokenId) == TRUE
BeforeTokenTransferAllows(from, to, tokenId) ==
    tokens[tokenId].isFreeMint => (from = ZeroAddress \/ to = ZeroAddress)

Receipt(fn, from, to, value, logicOk, status, reason, forwarded) ==
    [fn |-> fn, from |-> from, to |-> to, value |-> value, logicOk |-> logicOk,
     status |-> status, reason |-> reason, freeBefore |-> getFreeMints(from), forwarded |-> forwarded]

Reverted(fn, from, to, value, logicOk, reason) ==
    /\ receipt' = Receipt(fn, from, to, value, logicOk, "reverted", reason, 0)
    /\ UNCHANGED <<freeMintsPerUser, bonusFreeMints, freeMintsClaimed, tokens, paused, treasuryBalance>>

NfaOthers == <<facts, rvars, bvars, pvars, avars, fvars, nvars, uvars, cvars, gvars, yvars>>

InitNfa ==
    /\ freeMintsPerUser = DefaultFreeMints
    /\ bonusFreeMints = [u \in Users |-> 0]
    /\ freeMintsClaimed = [u \in Users |-> 0]
    /\ tokens = <<>>
    /\ paused = FALSE
    /\ treasuryBalance = 0
    /\ receipt = NoReceipt
    /\ resolved = NotResolved
    /\ dex = DexNone
    /\ intel = ZeroIntel
    /\ meme = MemeNull
    /\ findings = <<>>
    /\ score = 0
    /\ dsResponse = [kind |-> "nopair", usd |-> 0, fdv |-> 0]
    /\ RiskOff
    /\ BundleOff
    /\ RequestOff
    /\ AdapterOff
    /\ AppendOff
    /\ NarrativeOff
    /\ RuntimeOff
    /\ HoldersOff
    /\ AgentRunOff
    /\ FundsOff
    /\ LaterOff

\* createAgent lines 139-188; the call to the treasury address succeeds or
\* fails
createAgent(sender, to, value, logicOk) ==
    /\ Len(tokens) < MaxTokens
    /\ IF paused THEN Reverted("createAgent", sender, to, value, logicOk, "Contract is paused")
       ELSE IF to = ZeroAddress
            THEN Reverted("createAgent", sender, to, value, logicOk, "Cannot mint to zero address")
       ELSE IF ~logicOk
            THEN Reverted("createAgent", sender, to, value, logicOk, "Invalid logic address")
       ELSE IF FreeMintsRemaining(sender) > 0
            THEN IF to # sender
                 THEN Reverted("createAgent", sender, to, value, logicOk, "Free mints can only be minted to self")
                 ELSE /\ freeMintsClaimed' = [freeMintsClaimed EXCEPT ![sender] = @ + 1]
                      /\ tokens' = Append(tokens, [owner |-> to, isFreeMint |-> TRUE, minter |-> sender])
                      /\ receipt' = Receipt("createAgent", sender, to, value, logicOk, "success", "", 0)
                      /\ UNCHANGED <<freeMintsPerUser, bonusFreeMints, paused, treasuryBalance>>
       ELSE IF value # MINT_FEE
            THEN Reverted("createAgent", sender, to, value, logicOk, "Incorrect fee")
       ELSE \/ Reverted("createAgent", sender, to, value, logicOk, "Treasury transfer failed")
            \/ /\ treasuryBalance' = treasuryBalance + value
               /\ tokens' = Append(tokens, [owner |-> to, isFreeMint |-> FALSE, minter |-> sender])
               /\ receipt' = Receipt("createAgent", sender, to, value, logicOk, "success", "", value)
               /\ UNCHANGED <<freeMintsPerUser, bonusFreeMints, freeMintsClaimed, paused>>
    /\ UNCHANGED NfaOthers

\* ERC721 transferFrom by the token's owner, through _beforeTokenTransfer
transferFrom(sender, to, tokenId) ==
    /\ tokenId \in 1..Len(tokens)
    /\ tokens[tokenId].owner = sender
    /\ IF to = ZeroAddress
       THEN Reverted("transferFrom", sender, to, 0, TRUE, "ERC721: transfer to the zero address")
       ELSE IF ~BeforeTokenTransferAllows(sender, to, tokenId)
            THEN Reverted("transferFrom", sender, to, 0, TRUE, "Free minted tokens are non-transferable")
       ELSE /\ tokens' = [tokens EXCEPT ![tokenId].owner = to]
            /\ receipt' = Receipt("transferFrom", sender, to, 0, TRUE, "success", "", 0)
            /\ UNCHANGED <<freeMintsPerUser, bonusFreeMints, freeMintsClaimed, paused, treasuryBalance>>
    /\ UNCHANGED NfaOthers

\* grantAdditionalFreeMints lines 263-266, by the contract owner
grantAdditionalFreeMints(user, additionalAmount) ==
    /\ bonusFreeMints[user] + additionalAmount <= MaxBonus
    /\ bonusFreeMints' = [bonusFreeMints EXCEPT ![user] = @ + additionalAmount]
    /\ receipt' = Receipt("grantAdditionalFreeMints", user, user, 0, TRUE, "success", "", 0)
    /\ UNCHANGED <<freeMintsPerUser, freeMintsClaimed, tokens, paused, treasuryBalance>>
    /\ UNCHANGED NfaOthers

\* setFreeMintsPerUser lines 280-282, by the contract owner
setFreeMintsPerUser(amount) ==
    /\ freeMintsPerUser # amount
    /\ freeMintsPerUser' = amount
    /\ receipt' = [NoReceipt EXCEPT !.fn = "setFreeMintsPerUser", !.status = "success"]
    /\ UNCHANGED <<bonusFreeMints, freeMintsClaimed, tokens, paused, treasuryBalance>>
    /\ UNCHANGED NfaOthers

\* setPaused lines 287-290, by the contract owner
setPaused(pausedState) ==
    /\ paused # pausedState
    /\ paused' = pausedState
    /\ receipt' = [NoReceipt EXCEPT !.fn = "setPaused", !.status = "success"]
    /\ UNCHANGED <<freeMintsPerUser, bonusFreeMints, freeMintsClaimed, tokens, treasuryBalance>>
    /\ UNCHANGED NfaOthers

NextNfa ==
    \/ \E sender \in Users, to \in Users \cup {ZeroAddress}, value \in MsgValues,
          logicOk \in BOOLEAN :
            createAgent(sender, to, value, logicOk) /\ UNCHANGED wvars
    \/ \E sender \in Users, to \in Users \cup {ZeroAddress}, tokenId \in 1..Len(tokens) :
            transferFrom(sender, to, tokenId) /\ UNCHANGED wvars
    \/ \E user \in Users : grantAdditionalFreeMints(user, 1) /\ UNCHANGED wvars
    \/ \E amount \in {1, DefaultFreeMints} : setFreeMintsPerUser(amount) /\ UNCHANGED wvars
    \/ \E pausedState \in BOOLEAN : setPaused(pausedState) /\ UNCHANGED wvars

SpecNfa == InitNfa /\ [][NextNfa]_vars

(***************************************************************************)
(* SpecFunds: BAP578 fundAgent, withdrawFromAgent, emergencyWithdraw and   *)
(* the pause flag, with the mints and transfers of SpecNfa                 *)
(***************************************************************************)
ContractOwner == "owner"
MaxFunded == 2
FundValues == {1, 2}

FundsOthers == <<facts, rvars, bvars, pvars, avars, fvars, nvars, uvars, cvars, gvars, yvars>>
Exists(tokenId) == tokenId \in 1..Len(tokens)

\* the transaction of a call about an agent's funds or of an owner-only call
FundsReceipt(fn, from, tokenId, value, status, reason, sent) ==
    [fn |-> fn, from |-> from, tokenId |-> tokenId, value |-> value,
     status |-> status, reason |-> reason, sent |-> sent]

FundsReverted(fn, from, tokenId, value, reason) ==
    /\ receipt' = FundsReceipt(fn, from, tokenId, value, "reverted", reason, 0)
    /\ UNCHANGED <<freeMintsPerUser, bonusFreeMints, freeMintsClaimed, tokens, paused, treasuryBalance>>
    /\ UNCHANGED wvars

InitFunds == InitNfa

\* createAgent, with the value of a free mint staying in the contract
FundsCreateAgent(sender, to, value) ==
    /\ Len(tokens) < MaxFundTokens
    /\ createAgent(sender, to, value, TRUE)
    /\ contractBalance' = contractBalance +
           (IF receipt'.status = "success" THEN value - receipt'.forwarded ELSE 0)
    /\ UNCHANGED <<agentBalance, totalFunded, totalWithdrawn>>

\* fundAgent lines 193-197
fundAgentWhilePaused(sender, tokenId, value) ==
    /\ totalFunded[tokenId] + value <= MaxFunded
    /\ IF ~Exists(tokenId)
       THEN FundsReverted("fundAgent", sender, tokenId, value, "Token does not exist")
       ELSE /\ agentBalance' = [agentBalance EXCEPT ![tokenId] = @ + value]
            /\ contractBalance' = contractBalance + value
            /\ totalFunded' = [totalFunded EXCEPT ![tokenId] = @ + value]
            /\ receipt' = FundsReceipt("fundAgent", sender, tokenId, value, "success", "", 0)
            /\ UNCHANGED <<freeMintsPerUser, bonusFreeMints, freeMintsClaimed, tokens, paused,
                           treasuryBalance, totalWithdrawn>>
    /\ UNCHANGED FundsOthers

fundAgent(sender, tokenId, value) ==
    /\ totalFunded[tokenId] + value <= MaxFunded
    /\ IF paused
       THEN FundsReverted("fundAgent", sender, tokenId, value, "Contract is paused")
       ELSE IF ~Exists(tokenId)
       THEN FundsReverted("fundAgent", sender, tokenId, value, "Token does not exist")
       ELSE /\ agentBalance' = [agentBalance EXCEPT ![tokenId] = @ + value]
            /\ contractBalance' = contractBalance + value
            /\ totalFunded' = [totalFunded EXCEPT ![tokenId] = @ + value]
            /\ receipt' = FundsReceipt("fundAgent", sender, tokenId, value, "success", "", 0)
            /\ UNCHANGED <<freeMintsPerUser, bonusFreeMints, freeMintsClaimed, tokens, paused,
                           treasuryBalance, totalWithdrawn>>
    /\ UNCHANGED FundsOthers

\* the onlyTokenOwner modifier lines 100-103
IsTokenOwnerOrAnyone(sender, tokenId) == TRUE
IsTokenOwner(sender, tokenId) == tokens[tokenId].owner = sender

\* withdrawFromAgent lines 202-217; the payment to msg.sender fails when the
\* contract holds less than the amount or the receiver refuses it
withdrawFromAgent(sender, tokenId, amount) ==
    IF ~Exists(tokenId)
    THEN FundsReverted("withdrawFromAgent", sender, tokenId, amount, "ERC721: invalid token ID")
         /\ UNCHANGED FundsOthers
    ELSE IF ~IsTokenOwner(sender, tokenId)
    THEN FundsReverted("withdrawFromAgent", sender, tokenId, amount, "Not token owner")
         /\ UNCHANGED FundsOthers
    ELSE IF agentBalance[tokenId] < amount
    THEN FundsReverted("withdrawFromAgent", sender, tokenId, amount, "Insufficient balance")
         /\ UNCHANGED FundsOthers
    ELSE /\ \/ FundsReverted("withdrawFromAgent", sender, tokenId, amount, "Withdrawal failed")
            \/ /\ contractBalance >= amount
               /\ agentBalance' = [agentBalance EXCEPT ![tokenId] = @ - amount]
               /\ contractBalance' = contractBalance - amount
               /\ totalWithdrawn' = [totalWithdrawn EXCEPT ![tokenId] = @ + amount]
               /\ receipt' = FundsReceipt("withdrawFromAgent", sender, tokenId, amount, "success", "", amount)
               /\ UNCHANGED <<freeMintsPerUser, bonusFreeMints, freeMintsClaimed, tokens, paused,
                              treasuryBalance, totalFunded>>
         /\ UNCHANGED FundsOthers

\* emergencyWithdraw lines 295-300
emergencyWithdraw(sender) ==
    /\ IF sender # ContractOwner
       THEN FundsReverted("emergencyWithdraw", sender, 0, 0, "Ownable: caller is not the owner")
       ELSE IF contractBalance = 0
       THEN FundsReverted("emergencyWithdraw", sender, 0, 0, "No balance")
       ELSE /\ contractBalance' = 0
            /\ receipt' = FundsReceipt("emergencyWithdraw", sender, 0, 0, "success", "", contractBalance)
            /\ UNCHANGED <<freeMintsPerUser, bonusFreeMints, freeMintsClaimed, tokens, paused,
                           treasuryBalance, agentBalance, totalFunded, totalWithdrawn>>
    /\ UNCHANGED FundsOthers

\* setPaused lines 287-290 with the onlyOwner modifier
setPausedBy(sender, pausedState) ==
    IF sender # ContractOwner
    THEN FundsReverted("setPaused", sender, 0, 0, "Ownable: caller is not the owner")
         /\ UNCHANGED FundsOthers
    ELSE setPaused(pausedState) /\ UNCHANGED wvars

\* addr1 mints; anyone may fund, addr2 does, and it tries the owner's calls
NextFunds ==
    \/ \E value \in {0, MINT_FEE} : FundsCreateAgent("addr1", "addr1", value)
    \/ \E sender \in Users, to \in Users, tokenId \in 1..Len(tokens) :
            transferFrom(sender, to, tokenId) /\ UNCHANGED wvars
    \/ \E tokenId \in FundTokenIds, value \in FundValues : fundAgent("addr2", tokenId, value)
    \/ \E sender \in Users, tokenId \in FundTokenIds, amount \in FundValues :
            withdrawFromAgent(sender, tokenId, amount)
    \/ \E sender \in {"addr2", ContractOwner} : emergencyWithdraw(sender)
    \/ \E sender \in {"addr2", ContractOwner}, pausedState \in BOOLEAN : setPausedBy(sender, pausedState)
    \/ setFreeMintsPerUser(0) /\ UNCHANGED wvars

SpecFunds == InitFunds /\ [][NextFunds]_vars

(***************************************************************************)
(* Claims on the scorer and the market findings (SpecRisk)                 *)
(***************************************************************************)
HasFinding(text) == \E k \in 1..Len(findings) : findings[k].text = text

\* C1: the risk score computed by runRiskModule is an integer in the closed
\* range [0,100] for every combination of target, market facts, intel facts
\* and holder-cluster result.
C1_ScoreInRange == riskPc = "scored" => score \in 0..100

\* the clamp acts: every positive term applies and their sum, 131, is cut to 100
C1_Witness ==
    /\ riskPc = "scored"
    /\ resolved.isContract
    /\ LiquidityBand(resolved, dex) = 32
    /\ FdvTerm(dex) = 18
    /\ AltWalletTerm(intel) = 14
    /\ BundleTerm(meme) = 16
    /\ EntityTerm(intel) = 15
    /\ score = 100

\* the terms of the score as the scoring rule states them
Clamp0To100(x) == IF x < 0 THEN 0 ELSE IF x > 100 THEN 100 ELSE x
StatedAltTerm == IF intel.frAltLen > 0 THEN Min(14, 4 + (intel.frAltLen \div 3)) ELSE 0
StatedBundleTerm ==
    IF ~meme.isNull /\ meme.bundleGroupCount > 0
    THEN Min(16, 6 + 4 * meme.bundleGroupCount) ELSE 0
StatedEntityTerm ==
    IF \E k \in riskyTypes : Includes(intel.arkhamEntityType, k) THEN 15 ELSE 0
StatedProfitTerm == IF intel.gmgnProfitable >= 8 THEN 4 ELSE 0
StatedOtherTerms == StatedAltTerm + StatedBundleTerm + StatedEntityTerm - StatedProfitTerm

\* C2 as stated: for a contract target the score is clamp[0,100] of 18 + 18 +
\* (32 if liquidity < 5,000; 18 if liquidity < 30,000; 10 if there is no
\* liquidity data; 0 otherwise) + 18 if liquidity/FDV < 0.003 + the alt-wallet,
\* bundle, entity and profitable-position terms.
C2_StatedLiquidityTerm ==
    IF ~dex.hasLiquidity THEN 10
    ELSE IF dex.liquidityUsd < 5000 THEN 32
    ELSE IF dex.liquidityUsd < 30000 THEN 18 ELSE 0
C2_StatedFdvTerm ==
    IF dex.hasLiquidity /\ dex.fdvUsd > 0 /\ dex.liquidityUsd * 1000 < 3 * dex.fdvUsd
    THEN 18 ELSE 0
C2_ScoreAsStated ==
    (riskPc = "scored" /\ resolved.isContract) =>
        score = Clamp0To100(18 + 18 + C2_StatedLiquidityTerm + C2_StatedFdvTerm + StatedOtherTerms)

\* C2 amended: for a contract target the score is clamp[0,100] of 18 + 18 +
\* (32 if 0 < liquidity < 5,000; 18 if 5,000 <= liquidity < 30,000; 10 if
\* there is no liquidity data or the reported liquidity is not positive; 0
\* otherwise) + 18 if the liquidity is non-zero, FDV > 0 and liquidity/FDV <
\* 0.003 + the alt-wallet, bundle, entity and profitable-position terms; the
\* score depends on the inputs only.
C2_AmendedLiquidityTerm ==
    IF ~dex.hasLiquidity \/ dex.liquidityUsd <= 0 THEN 10
    ELSE IF dex.liquidityUsd < 5000 THEN 32
    ELSE IF dex.liquidityUsd < 30000 THEN 18 ELSE 0
C2_AmendedFdvTerm ==
    IF dex.hasLiquidity /\ dex.liquidityUsd # 0 /\ dex.fdvUsd > 0
       /\ dex.liquidityUsd * 1000 < 3 * dex.fdvUsd
    THEN 18 ELSE 0
C2_ScoreAmended ==
    (riskPc = "scored" /\ resolved.isContract) =>
        score = Clamp0To100(18 + 18 + C2_AmendedLiquidityTerm + C2_AmendedFdvTerm + StatedOtherTerms)

\* a contract whose best pair reports zero liquidity and an FDV: 18 + 18 + 10
C2_Witness ==
    /\ riskPc = "scored"
    /\ resolved.isContract
    /\ dex.hasLiquidity /\ dex.liquidityUsd = 0 /\ dex.fdvUsd = 2000000
    /\ StatedOtherTerms = 0
    /\ score = 46

\* C3: for a wallet target the liquidity band contributes +0 to the risk
\* score, whatever liquidity the market module reported for the address.
C3_WalletLiquidityBandZero ==
    (riskPc = "scored" /\ ~resolved.isContract) =>
        /\ LiquidityBand(resolved, dex) = 0
        /\ score = Clamp0To100(18 + FdvTerm(dex) + StatedOtherTerms)

\* C6: for a contract target the market findings and the scorer's market
\* terms agree: low-liquidity warning iff +32, moderate-liquidity info iff
\* +18, no-liquidity-data info iff +10, FDV warning iff the +18 FDV term.
C6_FindingsMatchTerms ==
    (riskPc = "scored" /\ resolved.isContract) =>
        /\ HasFinding("Low liquidity") <=> LiquidityBand(resolved, dex) = 32
        /\ HasFinding("Moderate liquidity") <=> LiquidityBand(resolved, dex) = 18
        /\ HasFinding("No DEX liquidity data found") <=> LiquidityBand(resolved, dex) = 10
        /\ HasFinding("High FDV vs liquidity") <=> FdvTerm(dex) = 18

\* liquidity 4,000 with FDV 2,000,000: both warnings, both +32 and +18
C6_Witness ==
    /\ riskPc = "scored"
    /\ resolved.isContract
    /\ dex.liquidityUsd = 4000 /\ dex.fdvUsd = 2000000
    /\ HasFinding("Low liquidity") /\ HasFinding("High FDV vs liquidity")
    /\ StatedOtherTerms = 0
    /\ score = 18 + 18 + 32 + 18

(***************************************************************************)
(* Claims on the bundle grouping (SpecBundle)                              *)
(***************************************************************************)
HoldersFundedBy(s) ==
    {k \in 1..Len(firstFundingByHolder) : firstFundingByHolder[k].from = s}
SharedSources == {s \in Sources : Cardinality(HoldersFundedBy(s)) >= 2}
ExactlyOnePair ==
    \E s \in Sources :
        /\ Cardinality(HoldersFundedBy(s)) = 2
        /\ \A t \in Sources \ {s} : Cardinality(HoldersFundedBy(t)) <= 1
\* the score of the same inputs when no bundle group is reported
ScoreWithoutBundle == runRiskModule(resolved, dex, intel, MemeResult(<<>>))

\* C4 as stated: when exactly two top holders share a first funding source
\* and every other top holder is funded independently, one bundle group is
\* reported and the bundle term adds 6 + 2*4 = 14 to the score.
C4_OnePairAddsFourteen ==
    (bundlePc = "scored" /\ ExactlyOnePair) =>
        /\ meme.bundleGroupCount = 1
        /\ score - ScoreWithoutBundle = 14

\* C4 amended: in that case one bundle group is reported and the bundle term
\* adds 6 + 1*4 = 10 to the score (the term counts groups, not holders).
C4_OnePairAddsTen ==
    (bundlePc = "scored" /\ ExactlyOnePair) =>
        /\ meme.bundleGroupCount = 1
        /\ score - ScoreWithoutBundle = 10

\* two holders funded by source 1, a third by source 2, a fourth unfunded
C4_Witness ==
    /\ bundlePc = "scored"
    /\ ExactlyOnePair
    /\ topHolders = 4
    /\ Cardinality(HoldersFundedBy(2)) = 1
    /\ bundledSources = <<[source |-> 1, count |-> 2]>>
    /\ score = 56

\* C5: bundleGroupCount is the number of distinct addresses that are the
\* recorded first funding source of at least 2 top holders, capped at 4, and
\* a source that funded a single top holder is never reported.
C5_BundleGroupCount ==
    bundlePc \in {"grouped", "scored"} =>
        /\ ~meme.isNull
        /\ meme.bundleGroupCount = Min(4, Cardinality(SharedSources))
        /\ \A k \in 1..Len(bundledSources) : bundledSources[k].source \in SharedSources
        /\ \A k \in 1..Len(bundledSources) :
              bundledSources[k].count = Cardinality(HoldersFundedBy(bundledSources[k].source))

\* H1..H4 first funded by F (source 1) and H5 by another address (source 2)
C5_Witness ==
    /\ bundlePc = "grouped"
    /\ topHolders = 5
    /\ firstFundingByHolder = FundingMap(<<1, 1, 1, 1, 2>>)
    /\ meme.bundleGroupCount = 1
    /\ bundledSources = <<[source |-> 1, count |-> 4]>>

(***************************************************************************)
(* Claims on the request (Spec, FairSpec)                                  *)
(***************************************************************************)
Classified == resolved # NotResolved
BytecodeReadFailed == calls["getBytecode"] = "rejected"
MetadataHit == calls["tokenMetadataProbe"] = "data"
PairHit == calls["dexProbe"] = "data"
ProbesNotMade == calls["tokenMetadataProbe"] = "idle" /\ calls["dexProbe"] = "idle"
BriefResult200 == [status |-> 200, body |-> "BriefResult"]

\* C7 as stated: the address is a contract exactly when its bytecode is
\* non-empty, or the bytecode read failed and the token metadata has a symbol
\* or name, or otherwise the market-pair service has a matching pair (and the
\* probe for it did not fail); else it is a wallet.
C7_ClassifiedAsStated ==
    Classified =>
        (resolved.isContract <=>
            \/ calls["getBytecode"] = "data"
            \/ BytecodeReadFailed /\ MetadataHit
            \/ dsResponse.kind = "pair" /\ calls["dexProbe"] # "rejected")

\* C7 as amended: both probes are made only after a failed bytecode read, the
\* market-pair probe only if the metadata probe gave no symbol or name; the
\* address is a contract exactly when its bytecode is non-empty or the read
\* failed and one of the probes hit; empty bytecode is a wallet, whatever the
\* market-pair service holds.
C7_ClassifiedAmended ==
    Classified =>
        /\ resolved.isContract <=>
              \/ calls["getBytecode"] = "data"
              \/ BytecodeReadFailed /\ (MetadataHit \/ PairHit)
        /\ ~BytecodeReadFailed => ProbesNotMade
        /\ MetadataHit => calls["dexProbe"] = "idle"
        /\ resolved \in {ContractTarget, WalletTarget}

C7_Witness ==
    /\ resolved = WalletTarget
    /\ calls["getBytecode"] = "empty"
    /\ dsResponse.kind = "pair"
    /\ ProbesNotMade

\* C8: a request whose query holds a valid address is never answered with an
\* error, whichever calls fail or time out: its reply is the BriefResult with
\* status 200.
C8_ValidAddressNeverFails ==
    query = "address" =>
        /\ reply.status # 400
        /\ pc = "replied" => reply = BriefResult200

C8_Witness ==
    /\ reply = BriefResult200
    /\ resolved = ContractTarget
    /\ env.moralisKey
    /\ dex = DexNone
    /\ meme = MemeNull
    /\ calls["aiFetch"] = "rejected"
    /\ timedOut

\* C9 as stated: once the bytecode read has failed (the node is unreachable),
\* and in particular once both probes have failed too, the request is
\* aborted: no target is classified and the reply is not a success.
C9_ResolutionFailureAborts ==
    (/\ query = "address"
     /\ pc \in {"enrich", "aiFetch", "aiBody", "replied"}
     /\ \/ BytecodeReadFailed
        \/ /\ BytecodeReadFailed
           /\ calls["tokenMetadataProbe"] = "rejected"
           /\ calls["dexProbe"] = "rejected")
    => (resolved = NotResolved /\ reply.status # 200)

\* C9 as amended: when the bytecode read fails and neither probe hits (each
\* failed, timed out or found nothing), the address is classified wallet and
\* the request is not aborted.
C9_FailedResolutionIsWallet ==
    (/\ query = "address"
     /\ pc \in {"enrich", "aiFetch", "aiBody", "replied"}
     /\ BytecodeReadFailed /\ ~MetadataHit /\ ~PairHit)
    => (resolved = WalletTarget /\ reply.status # 400)

C9_Witness ==
    /\ reply = BriefResult200
    /\ resolved = WalletTarget
    /\ BytecodeReadFailed
    /\ calls["tokenMetadataProbe"] = "rejected"
    /\ calls["dexProbe"] = "rejected"

\* C10: with every armed timer firing and every ready continuation running,
\* a request with a valid address is eventually answered, even if remote
\* ends never respond.
C10_EventuallyReturns == (pc = "resolveRpc") ~> (pc = "replied")

(***************************************************************************)
(* Claims on the adapters (SpecAdapter)                                    *)
(***************************************************************************)
RequestsTo(e) == {k \in 1..Len(requests) : requests[k].endpoint = e}
EndpointIndex(e) == CHOOSE k \in 1..Len(endpoints) : endpoints[k] = e
NothingUsable == RequestFailures \cup {"errorResult", "noProfile"}

Returned == briefLists # NoResult

\* C12: the BriefResult holds at most 10 findings and at most 10 evidence
\* entries, however many the modules appended and in whatever order.
C12_ListsCapped ==
    Returned => Len(briefLists.findings) <= 10 /\ Len(briefLists.evidence) <= 10

C12_Witness ==
    /\ Returned
    /\ Len(findings) > 10
    /\ Len(briefLists.findings) = 10
    /\ findings[1] = "market"

ModuleRank(m) ==
    CASE m = "analyzeBrief" -> 0
      [] m = "contract" -> 1
      [] m = "market" -> 2
      [] m = "intel" -> 3
      [] m = "meme" -> 4

InModuleOrder(list) ==
    \A i \in 1..Len(list), j \in 1..Len(list) :
        i < j => ModuleRank(list[i]) <= ModuleRank(list[j])

StatedMostlyLatin(t) == t.latin >= 24 /\ t.latin > 2 * t.zh
LlmGaveTexts == llm.configured /\ llm.fetch = "ok" /\ llm.body = "valid"
FallbackCase(cjkLocales) ==
    \/ ~llm.configured
    \/ llm.fetch # "ok"
    \/ llm.body # "valid"
    \/ /\ lang \in cjkLocales
       /\ StatedMostlyLatin(llm.tldr) \/ StatedMostlyLatin(llm.explanation)

\* C14 as stated: the fallback narrative is returned whenever no LLM key is
\* set, the call fails or times out, the output is not the two-field JSON,
\* or, for a CJK locale (zh-CN, zh-TW, ko), a returned text is mostly Latin;
\* the LLM narrative is used only when none of these holds.
C14_FallbackAsStated ==
    npc = "done" => (FallbackCase({"zh-CN", "zh-TW", "ko"}) => narrative = "fallback")

\* C14 as amended: the same, the language test applying to the Chinese
\* locales zh-CN and zh-TW only.
C14_FallbackForChineseLocales ==
    npc = "done" => (FallbackCase({"zh-CN", "zh-TW"}) => narrative = "fallback")

C14_Witness ==
    /\ npc = "done"
    /\ lang = "zh-TW"
    /\ LlmGaveTexts
    /\ llm.tldr = [latin |-> 24, zh |-> 11]
    /\ llm.explanation = [latin |-> 0, zh |-> 40]
    /\ narrative = "fallback"

(***************************************************************************)
(* Claims on the runtime report (SpecRuntime)                              *)
(***************************************************************************)
ReturnedLiveData == \E p \in OptionalProviders : providers[p] = "api"

\* C15: the report mode is "enhanced" exactly when at least one optional
\* provider returned live data on the request; a provider that is configured
\* but returned nothing does not make it enhanced.
C15_EnhancedIffLiveData ==
    upc = "done" => ((runtime.mode = "enhanced") <=> ReturnedLiveData)

(***************************************************************************)
(* Claims on the holder lists (SpecHolders)                                *)
(***************************************************************************)
NoDuplicates(list) == \A i, j \in 1..Len(list) : list[i] = list[j] => i = j
SameAccount(a, b) == a.id = b.id
AllAmong(small, big) ==
    \A i \in 1..Len(small) : \E j \in 1..Len(big) : small[i] = big[j]

\* C16: for every holder list the candidate list has no entry for the token's
\* own address, no duplicate and at most 24 entries, and the top-holder list
\* has at most 12 entries, each of them a candidate.
C16_HolderListsWellFormed ==
    /\ \A i \in 1..Len(candidates) : ~SameAccount(candidates[i], tokenAddress)
    /\ \A i, j \in 1..Len(candidates) : SameAccount(candidates[i], candidates[j]) => i = j
    /\ Len(candidates) <= 24
    /\ Len(holderList) <= 12
    /\ AllAmong(holderList, candidates)

\* more than 24 distinct holders arrived with the token's own address in
\* upper case and a repeated row among them, and more than 12 are wallets
C16_Witness ==
    /\ cpc = "profiles"
    /\ Len(ownersResp) > 24 + 2
    /\ \E i \in 1..Len(ownersResp) : SameAccount(ownersResp[i], tokenAddress) /\ ownersResp[i] # tokenAddress
    /\ ~NoDuplicates([i \in 1..Len(ownersResp) |-> ownersResp[i].id])
    /\ Len(candidates) = 24
    /\ Len(holderList) = 12

(***************************************************************************)
(* Claims on the paid agent run (SpecAgentRun)                             *)
(***************************************************************************)
PaidRun(r) ==
    agent.visibility = "public" /\ agent.rentPriceWei > 0 /\ runs[r].caller # OwnerAddress
\* the payment as the claim words it, read off the chain
PaymentValid(r) ==
    /\ chainTx.status = "success"
    /\ chainTx.from = runs[r].caller
    /\ chainTx.to = NfaContract
    /\ chainTx.value >= agent.rentPriceWei
    /\ chainTx.log.address = NfaContract
    /\ chainTx.log.tokenId = NfaTokenId
    /\ chainTx.log.amount >= agent.rentPriceWei

\* C17: a paid run (public agent, rent > 0, caller not the owner) has its
\* analysis run only if the payment transaction succeeded on-chain, was sent
\* by the caller to the bound contract with value >= rent, and carries an
\* AgentFunded event of that contract for the agent's token with amount >=
\* rent; otherwise the run is answered with an error and no analysis was run.
C17_PaidRunNeedsValidPayment ==
    \A r \in Requests :
        PaidRun(r) =>
            /\ runs[r].analysed => (runs[r].hash # "" /\ PaymentValid(r))
            /\ (runs[r].pc = "replied" /\ ~(runs[r].hash # "" /\ PaymentValid(r)))
                   => (runs[r].status = 400 /\ ~runs[r].analysed)

\* a paid run with a valid payment, presented in upper case, was served
C17_Witness ==
    /\ PaidRun(1)
    /\ runs[1].hash = "0xAB"
    /\ PaymentValid(1)
    /\ runs[1].analysed
    /\ runs[1].status = 200
    /\ usedPaymentTx = {"0xab"}

SuccessfulPaidRuns(h) ==
    {r \in Requests : PaidRun(r) /\ runs[r].status = 200 /\ normalizeHash(runs[r].hash) = h}

\* C18: one payment transaction hash pays for at most one successful run of
\* the agent, also when the second request arrives while the first one is
\* still being served.
C18_HashPaysOneRun ==
    \A h \in {"0xab"} : Cardinality(SuccessfulPaidRuns(h)) <= 1

(***************************************************************************)
(* Claims on the BAP578 contract (SpecNfa)                                 *)
(***************************************************************************)
MintCall == receipt.fn = "createAgent"
MintSucceeded == MintCall /\ receipt.status = "success"
\* the require statements before the fee logic let the call through
MintInputsValid == receipt.to # ZeroAddress /\ receipt.logicOk

\* C19: a successful createAgent by an address whose getFreeMints was > 0
\* forwards no fee and lowers its getFreeMints by exactly 1; with
\* getFreeMints 0 it succeeds only with msg.value = MINT_FEE, all of it
\* forwarded to the treasury, and any other value reverts, with "Incorrect
\* fee" when the call is not stopped by an earlier require.
C19_FreeMintsThenFee ==
    /\ (MintSucceeded /\ receipt.freeBefore > 0) =>
           /\ getFreeMints(receipt.from) = receipt.freeBefore - 1
           /\ receipt.forwarded = 0
    /\ (MintSucceeded /\ receipt.freeBefore = 0) =>
           /\ receipt.value = MINT_FEE
           /\ receipt.forwarded = MINT_FEE
    /\ (MintCall /\ receipt.freeBefore = 0 /\ receipt.value # MINT_FEE) =>
           /\ receipt.status = "reverted"
           /\ (MintInputsValid /\ ~paused) => receipt.reason = "Incorrect fee"

\* addr1 used its three free mints and one granted bonus mint without a
\* fee, the last of them just now
C19_Witness ==
    /\ MintSucceeded
    /\ receipt.from = "addr1"
    /\ receipt.value = 0
    /\ receipt.freeBefore = 1
    /\ bonusFreeMints["addr1"] = 1
    /\ freeMintsPerUser = DefaultFreeMints
    /\ freeMintsClaimed["addr1"] = DefaultFreeMints + 1
    /\ getFreeMints("addr1") = 0

\* C20: a free mint goes to the caller's own address only, a free-minted
\* token is never transferred between two non-zero addresses, and its owner
\* is always its minter.
C20_FreeTokensStayWithMinter ==
    /\ \A t \in 1..Len(tokens) : tokens[t].isFreeMint => tokens[t].owner = tokens[t].minter
    /\ (MintSucceeded /\ tokens[Len(tokens)].isFreeMint) => receipt.to = receipt.from
    /\ (MintCall /\ receipt.freeBefore > 0 /\ MintInputsValid /\ ~paused /\ receipt.to # receipt.from) =>
           receipt.reason = "Free mints can only be minted to self"

\* a transfer of a free-minted token was refused while a paid token of the
\* same minter has moved to the other address
C20_Witness ==
    /\ receipt.fn = "transferFrom"
    /\ receipt.reason = "Free minted tokens are non-transferable"
    /\ \E t \in 1..Len(tokens) : tokens[t].isFreeMint /\ tokens[t].owner = receipt.from
    /\ \E t \in 1..Len(tokens) : ~tokens[t].isFreeMint /\ tokens[t].owner # tokens[t].minter

(***************************************************************************)
(* Claims on the funds of the BAP578 contract (SpecFunds)                  *)
(***************************************************************************)
RECURSIVE SumBalances(_, _)
SumBalances(bal, ids) ==
    IF ids = {} THEN 0
    ELSE LET t == CHOOSE x \in ids : TRUE IN bal[t] + SumBalances(bal, ids \ {t})

LedgerHolds == \A t \in FundTokenIds : agentBalance[t] = totalFunded[t] - totalWithdrawn[t]

WithdrawStep ==
    receipt'.fn = "withdrawFromAgent" =>
        IF receipt'.status = "success"
        THEN /\ Exists(receipt'.tokenId)
             /\ tokens[receipt'.tokenId].owner = receipt'.from
             /\ receipt'.value <= agentBalance[receipt'.tokenId]
             /\ receipt'.sent = receipt'.value
             /\ agentBalance' = [agentBalance EXCEPT ![receipt'.tokenId] = @ - receipt'.value]
             /\ contractBalance' = contractBalance - receipt'.value
        ELSE UNCHANGED <<agentBalance, contractBalance, treasuryBalance>>

\* C21: an agent's recorded balance is always what fundAgent received for it
\* minus what withdrawFromAgent paid out of it; a withdrawFromAgent call
\* succeeds only from the token's current owner with amount <= the recorded
\* balance and pays exactly the amount to the caller; any other call
\* reverts and leaves all balances as they were.
C21_BalanceIsFundedMinusWithdrawn == [][LedgerHolds' /\ WithdrawStep]_vars

\* addr2, holding a token addr1 minted and sold, withdrew part of its funds
C21_Witness ==
    /\ receipt.fn = "withdrawFromAgent"
    /\ receipt.status = "success"
    /\ receipt.from = "addr2"
    /\ tokens[receipt.tokenId].minter = "addr1"
    /\ totalFunded[receipt.tokenId] = 2
    /\ totalWithdrawn[receipt.tokenId] = 1
    /\ agentBalance[receipt.tokenId] = 1

PausedCallStep ==
    (paused /\ receipt'.fn \in {"createAgent", "fundAgent"}) =>
        /\ receipt'.status = "reverted"
        /\ receipt'.reason = "Contract is paused"
        /\ UNCHANGED <<tokens, freeMintsClaimed, agentBalance, contractBalance, treasuryBalance,
                       totalFunded, paused>>

PauseFlagStep ==
    /\ paused' # paused => (receipt'.fn = "setPaused" /\ receipt'.status = "success")
    /\ (receipt'.fn = "setPaused" /\ receipt'.from # ZeroAddress) =>
           (receipt'.from # ContractOwner /\ receipt'.status = "reverted" /\ paused' = paused)

Resolving == pc \in {"resolveRpc", "resolveMeta", "resolveDex"}
ScoreOfOutputs == runRiskModule(resolved, dex, intel, meme)

StageStep ==
    /\ (\E m \in Modules : mpc[m] = "idle" /\ mpc'[m] # "idle") =>
           (Resolving /\ pc' = "enrich" /\ resolved' # NotResolved)
    /\ (pc = "enrich" /\ (pc' = "aiFetch" \/ reply' = BriefResult200)) =>
           ((\A m \in Modules : mpc[m] = "done") /\ score' = ScoreOfOutputs)
    /\ (pc' \in {"aiFetch", "aiBody"} \/ reply' = BriefResult200) => score' = ScoreOfOutputs'

\* C23: no enrichment module starts before the resolver has completed, the
\* scorer runs only when all four modules have completed, and the narrative
\* (the LLM call and the reply) comes only after the score, which is the score
\* of the complete module outputs.
C23_StagesInOrder == [][StageStep]_vars

\* a contract request with the holder module running was answered after the
\* LLM call, with the score of the grouped holders
C23_Witness ==
    /\ reply = BriefResult200
    /\ resolved = ContractTarget
    /\ \A m \in Modules : mpc[m] = "done"
    /\ ~meme.isNull
    /\ calls["aiBody"] = "data"
    /\ score = ScoreOfOutputs
    /\ score > 0

(***************************************************************************)
(* SpecFunding: the funding-source loop of runMemeModule                   *)
(***************************************************************************)
\* the most items the provider puts in one page of the model
MaxPageLen == 2

\* String(it.from_address || "") of an item without a usable address
BadAddress == Address(0, FALSE)
\* viem's isAddress with strict: false accepts either case
isAddress(a) == a.id # 0

RawFrom == {Address(5, FALSE), Address(6, TRUE), BadAddress}
RawTo == {Address(1, FALSE), Address(2, TRUE), Address(3, FALSE), BadAddress}
RawItems == [from : RawFrom, to : RawTo]
RawPages == UNION {[1..n -> RawItems] : n \in 0..MaxPageLen}

\* what the awaited page is: null (no key, not ok, no JSON, rejection or
\* the 3200 ms timer), or the provider's items and whether it sent a cursor
PageResults == {[isNull |-> TRUE, result |-> <<>>, cursor |-> FALSE]}
                 \cup [isNull : {FALSE}, result : RawPages, cursor : BOOLEAN]

IsValidTransfer(x) == isAddress(x.toAddress) /\ isAddress(x.fromAddress)

\* fetchMoralisTokenTransfers lines 262-275: map, then filter
MoralisTransfers(arr) ==
    SelectSeq([i \in 1..Len(arr) |-> [fromAddress |-> toLowerCase(arr[i].from),
                                      toAddress |-> toLowerCase(arr[i].to)]],
              IsValidTransfer)

\* Map.has over the entries
MapHas(map, key) == \E k \in 1..Len(map) : map[k].to = key

\* Map.set: a present key keeps its place and takes the new value
MapSet(map, key, value) ==
    IF MapHas(map, key)
    THEN [k \in 1..Len(map) |-> IF map[k].to = key THEN [to |-> key, from |-> value] ELSE map[k]]
    ELSE Append(map, [to |-> key, from |-> value])

\* the for loop of lines 994-1001 without the test of line 997
RECURSIVE RecordTransfersOverwriting(_, _, _)
RecordTransfersOverwriting(map, transfers, holders) ==
    IF transfers = <<>> THEN map
    ELSE LET to == toLowerCase(Head(transfers).toAddress)
             from == toLowerCase(Head(transfers).fromAddress)
         IN  IF to \notin holders THEN RecordTransfersOverwriting(map, Tail(transfers), holders)
             ELSE IF ~isAddress(from) THEN RecordTransfersOverwriting(map, Tail(transfers), holders)
             ELSE RecordTransfersOverwriting(MapSet(map, to, from), Tail(transfers), holders)

\* the for loop of lines 994-1001
RECURSIVE RecordTransfers(_, _, _)
RecordTransfers(map, transfers, holders) ==
    IF transfers = <<>> THEN map
    ELSE LET to == toLowerCase(Head(transfers).toAddress)
             from == toLowerCase(Head(transfers).fromAddress)
         IN  IF to \notin holders THEN RecordTransfers(map, Tail(transfers), holders)
             ELSE IF MapHas(map, to) THEN RecordTransfers(map, Tail(transfers), holders)
             ELSE IF ~isAddress(from) THEN RecordTransfers(map, Tail(transfers), holders)
             ELSE RecordTransfers(MapSet(map, to, from), Tail(transfers), holders)

\* the while test of line 981 without its page bound
LoopContinuesWhileUnresolved(count, mapSize, setSize) == mapSize < setSize

\* the while test of line 981
LoopContinues(count, mapSize, setSize) == count < MaxPages /\ mapSize < setSize

\* no transfer to the holder has been received
NoSender == Address(-1, FALSE)

\* the sender of the first transfer to holder h in the page, if the page has one
FirstSenderTo(h, transfers) ==
    LET hits == {i \in 1..Len(transfers) : transfers[i].toAddress = h}
    IN  IF hits = {} THEN NoSender
        ELSE transfers[CHOOSE i \in hits : \A j \in hits : i <= j].fromAddress

\* no brief request, no contract and no agent run is under way
RestOff ==
    /\ resolved = NotResolved /\ dex = DexNone /\ intel = ZeroIntel /\ meme = MemeNull
    /\ findings = <<>> /\ score = 0
    /\ dsResponse = [kind |-> "nopair", usd |-> 0, fdv |-> 0]
    /\ RiskOff /\ BundleOff /\ RequestOff
    /\ AdapterOff /\ AppendOff /\ NarrativeOff /\ RuntimeOff /\ HoldersOff /\ AgentRunOff /\ NfaOff /\ FundsOff

FundingOthers == <<facts, rvars, bvars, pvars, avars, fvars, nvars, uvars, cvars, gvars, kvars, wvars, mvars, ivars, svars>>

\* lines 956-980: one to two top holders, lower-cased and distinct
InitFunding ==
    /\ fundHolders \in {<<Address(1, FALSE)>>, <<Address(1, FALSE), Address(2, FALSE)>>,
                        <<Address(2, FALSE), Address(1, FALSE)>>}
    /\ holderSet = {toLowerCase(fundHolders[i]) : i \in 1..Len(fundHolders)}
    /\ fundingByHolder = <<>>
    /\ cursor = FALSE
    /\ fundPageCount = 0
    /\ earliestSender = [h \in holderSet |-> NoSender]
    /\ fundPc = "test"
    /\ RestOff
    /\ PoolOff
    /\ IntelOff
    /\ StoreOff

\* lines 981-991: the test passes and the next page is requested
RequestPage ==
    /\ fundPc = "test"
    /\ LoopContinues(fundPageCount, Len(fundingByHolder), Cardinality(holderSet))
    /\ fundPageCount' = fundPageCount + 1
    /\ fundPc' = "await"
    /\ UNCHANGED <<fundHolders, holderSet, fundingByHolder, cursor, earliestSender, FundingOthers>>

\* line 981: the test fails and the loop is left
LeaveLoop ==
    /\ fundPc = "test"
    /\ ~LoopContinues(fundPageCount, Len(fundingByHolder), Cardinality(holderSet))
    /\ fundPc' = "done"
    /\ UNCHANGED <<fundHolders, holderSet, fundingByHolder, cursor, fundPageCount, earliestSender, FundingOthers>>

\* lines 982-1003: the awaited page settles and the body runs to the next test
PageSettles(page) ==
    /\ fundPc = "await"
    /\ LET transfers == MoralisTransfers(page.result)
       IN  IF page.isNull \/ Len(transfers) = 0
           THEN /\ fundPc' = "done"
                /\ UNCHANGED <<fundingByHolder, cursor, earliestSender>>
           ELSE /\ fundingByHolder' = RecordTransfers(fundingByHolder, transfers, holderSet)
                /\ earliestSender' = [h \in holderSet |->
                       IF earliestSender[h] # NoSender THEN earliestSender[h]
                       ELSE FirstSenderTo(h, transfers)]
                /\ cursor' = page.cursor
                /\ fundPc' = IF page.cursor THEN "test" ELSE "done"
    /\ UNCHANGED <<fundHolders, holderSet, fundPageCount, FundingOthers>>

NextFunding ==
    \/ RequestPage
    \/ LeaveLoop
    \/ \E page \in PageResults : PageSettles(page)

SpecFunding == InitFunding /\ [][NextFunding]_vars

\* the awaited page always settles: withTimeout arms a 3200 ms timer (line
\* 983) and the .catch turns its rejection into null (line 992)
FairSpecFunding == SpecFunding /\ WF_vars(NextFunding)

(***************************************************************************)
(* Claims on the funding-source loop (SpecFunding, FairSpecFunding)        *)
(***************************************************************************)
FunderOf(h) == fundingByHolder[CHOOSE k \in 1..Len(fundingByHolder) : fundingByHolder[k].to = h].from

FundersAreEarliest ==
    /\ \A k \in 1..Len(fundingByHolder) :
          /\ fundingByHolder[k].to \in holderSet
          /\ fundingByHolder[k].from = earliestSender[fundingByHolder[k].to]
          /\ \A j \in 1..Len(fundingByHolder) : fundingByHolder[j].to = fundingByHolder[k].to => j = k
    /\ \A h \in holderSet : earliestSender[h] # NoSender => MapHas(fundingByHolder, h)

\* C24: the funder recorded for a top holder is the sender of the earliest
\* transfer to it in the order of the pages received, an entry once recorded
\* is never changed, and only top holders get an entry.
C24_FunderIsEarliestSender ==
    [][/\ FundersAreEarliest'
       /\ Len(fundingByHolder') >= Len(fundingByHolder)
       /\ \A k \in 1..Len(fundingByHolder) : fundingByHolder'[k] = fundingByHolder[k]]_vars

\* both holders got their funder, the second holder first and on a later
\* page than the first holder's funder was recorded
C24_Witness ==
    /\ fundPc = "done"
    /\ fundPageCount = 2
    /\ fundHolders = <<Address(1, FALSE), Address(2, FALSE)>>
    /\ fundingByHolder = <<[to |-> Address(2, FALSE), from |-> Address(6, FALSE)],
                           [to |-> Address(1, FALSE), from |-> Address(5, FALSE)]>>

PageRequestStep ==
    fundPageCount' # fundPageCount =>
        /\ fundPageCount' = fundPageCount + 1
        /\ fundPageCount' <= 6
        /\ Len(fundingByHolder) < Cardinality(holderSet)

\* C25: the loop ends, it asks for at most 6 pages whatever the provider
\* answers, and it asks for no page once every top holder has a funder.
C25_LoopEndsWithinSixPages == [][PageRequestStep]_vars /\ <>[](fundPc = "done")

\* six pages each came with a cursor and a holder is still without a funder
C25_Witness ==
    /\ fundPc = "done"
    /\ fundPageCount = 6
    /\ cursor
    /\ Len(fundingByHolder) < Cardinality(holderSet)

(***************************************************************************)
(* SpecPool: mapLimit, as runMemeModule calls it                           *)
(***************************************************************************)
\* the most items given to one call of the model
MaxPoolItems == 7
\* lines 952 and 959: the limits of the two calls
ProbeLimit == 5
ProfileLimit == 4

Range(f) == {f[k] : k \in DOMAIN f}

\* an array slot never assigned
EmptySlot == "empty"
\* what fn resolves to: the flag of line 954 for a probe, the metadata or
\* the null of the .catch for a profile lookup
FnValues(lim) == IF lim = ProbeLimit THEN {"contract", "wallet"} ELSE {"meta", "null"}

\* line 174: Array.from({ length: Math.max(1, limit) }, ...)
WorkerCount(n, lim) == Max(1, lim)

\* the assignment of line 178 made at the shared cursor
StoreResultAtCursor(o, i, next, value) ==
    IF next - 1 \in DOMAIN o THEN [o EXCEPT ![next - 1] = value] ELSE o

\* line 178: out[i] = the awaited value, i being the worker's own index
StoreResult(o, i, next, value) == [o EXCEPT ![i] = value]

WorkerReturned == [at |-> "returned", i |-> -1]

\* lines 176-178 up to the await, for worker w, on st = [idx, worker, fnCalls]
TakeNext(st, w) ==
    LET i == st.idx
    IN  IF i >= Len(items)
        THEN [st EXCEPT !.idx = i + 1, !.worker[w] = WorkerReturned]
        ELSE [st EXCEPT !.idx = i + 1,
                        !.worker[w] = [at |-> "await", i |-> i],
                        !.fnCalls[items[i + 1]] = @ + 1]

\* the workers are created one after the other, each running to its first
\* await before the next is created
RECURSIVE StartFrom(_, _, _)
StartFrom(st, w, count) ==
    IF w > count THEN st ELSE StartFrom(TakeNext(st, w), w + 1, count)

\* the calls of fn not yet resolved
InFlight == Cardinality({w \in DOMAIN worker : worker[w].at = "await"})
\* the probes or lookups sent and not yet answered: withTimeout (lines
\* 160-169) rejects the race when its timer fires and hands its signal to
\* nobody, so the lookup it wraps goes on
Outstanding == InFlight + Cardinality(abandoned)

PoolOthers == <<facts, rvars, bvars, pvars, avars, fvars, nvars, uvars, cvars, gvars, kvars, wvars, dvars, ivars, svars>>

\* the arguments of the call: the candidates with limit 5 (line 952) or the
\* top holders with limit 4 (line 959); the items are distinct addresses
InitPool ==
    /\ \E n \in 0..MaxPoolItems : items = [k \in 1..n |-> 100 + k]
    /\ limit \in {ProbeLimit, ProfileLimit}
    /\ idx = 0
    /\ out = <<>>
    /\ worker = <<>>
    /\ fnCalls = <<>>
    /\ fnValue = <<>>
    /\ abandoned = {}
    /\ poolPc = "called"
    /\ RestOff
    /\ FundingOff
    /\ IntelOff
    /\ StoreOff

\* lines 172-179: the array, the cursor and the workers
PoolStart ==
    /\ poolPc = "called"
    /\ LET count == WorkerCount(Len(items), limit)
           st == StartFrom([idx |-> 0,
                            worker |-> [w \in 1..count |-> [at |-> "new", i |-> -1]],
                            fnCalls |-> [a \in Range(items) |-> 0]],
                           1, count)
       IN  /\ idx' = st.idx
           /\ worker' = st.worker
           /\ fnCalls' = st.fnCalls
    /\ out' = [i \in 0..(Len(items) - 1) |-> EmptySlot]
    /\ fnValue' = [a \in Range(items) |-> EmptySlot]
    /\ poolPc' = "running"
    /\ UNCHANGED <<items, limit, abandoned, PoolOthers>>

\* lines 176-178: the call of worker w resolves to value; the worker stores
\* it and goes round the loop to its next await or to its return
CallResolves(w, value) ==
    /\ poolPc = "running"
    /\ worker[w].at = "await"
    /\ out' = StoreResult(out, worker[w].i, idx, value)
    /\ fnValue' = [fnValue EXCEPT ![items[worker[w].i + 1]] = value]
    /\ LET st == TakeNext([idx |-> idx, worker |-> worker, fnCalls |-> fnCalls], w)
       IN  /\ idx' = st.idx
           /\ worker' = st.worker
           /\ fnCalls' = st.fnCalls
    /\ UNCHANGED <<items, limit, abandoned, poolPc, PoolOthers>>

\* lines 959-960 and 160-169: the 1200 ms timer of worker w's lookup fires
\* first; the race rejects, the .catch gives null, the worker stores it and
\* goes on, and the lookup is still on its way
LookupTimesOut(w) ==
    /\ poolPc = "running"
    /\ limit = ProfileLimit
    /\ worker[w].at = "await"
    /\ out' = StoreResult(out, worker[w].i, idx, "null")
    /\ fnValue' = [fnValue EXCEPT ![items[worker[w].i + 1]] = "null"]
    /\ abandoned' = abandoned \cup {items[worker[w].i + 1]}
    /\ LET st == TakeNext([idx |-> idx, worker |-> worker, fnCalls |-> fnCalls], w)
       IN  /\ idx' = st.idx
           /\ worker' = st.worker
           /\ fnCalls' = st.fnCalls
    /\ UNCHANGED <<items, limit, poolPc, PoolOthers>>

\* the answer to an abandoned lookup arrives and nobody reads it
LateAnswer(a) ==
    /\ a \in abandoned
    /\ abandoned' = abandoned \ {a}
    /\ UNCHANGED <<items, limit, idx, out, worker, fnCalls, fnValue, poolPc, PoolOthers>>

\* lines 181-182: every worker has returned and Promise.all resolves
PoolReturn ==
    /\ poolPc = "running"
    /\ \A w \in DOMAIN worker : worker[w].at = "returned"
    /\ poolPc' = "returned"
    /\ UNCHANGED <<items, limit, idx, out, worker, fnCalls, fnValue, abandoned, PoolOthers>>

NextPool ==
    \/ PoolStart
    \/ \E w \in DOMAIN worker, value \in FnValues(limit) : CallResolves(w, value)
    \/ \E w \in DOMAIN worker : LookupTimesOut(w)
    \/ \E a \in abandoned : LateAnswer(a)
    \/ PoolReturn

SpecPool == InitPool /\ [][NextPool]_vars

(***************************************************************************)
(* Claims on mapLimit (SpecPool)                                           *)
(***************************************************************************)
\* C26: at most 5 bytecode probes and at most 4 profile lookups are
\* outstanding at any moment, no item is given to fn twice, and when
\* mapLimit returns every item has been given to fn once.
C26_PoolWithinLimit ==
    /\ limit = 5 => Outstanding <= 5
    /\ limit = 4 => Outstanding <= 4
    /\ \A a \in DOMAIN fnCalls : fnCalls[a] <= 1
    /\ poolPc = "returned" => \A a \in DOMAIN fnCalls : fnCalls[a] = 1

\* C30: when mapLimit returns, out[i] is what the call of fn made with
\* items[i] resolved to, whatever the order in which the calls resolved.
C30_OutAlignedWithItems ==
    poolPc = "returned" =>
        /\ DOMAIN out = 0..(Len(items) - 1)
        /\ \A i \in DOMAIN out : out[i] # EmptySlot /\ out[i] = fnValue[items[i + 1]]

\* a contract among wallets: the third of four candidates, and only it, was
\* flagged
C30_Witness ==
    /\ poolPc = "returned"
    /\ limit = 5
    /\ Len(items) = 4
    /\ out = [i \in 0..3 |-> IF i = 2 THEN "contract" ELSE "wallet"]

(***************************************************************************)
(* SpecIntel: the findings runIntelModule pushes for what its sources gave *)
(***************************************************************************)
IntelSources == {"label profile", "alt-wallet list", "tag service", "entity intelligence",
                 "portfolio", "trade sample", "explorer activity"}

NoData == [isNull |-> TRUE]

\* tokenStats of the label profile: none, one without a numeric pnl, one
\* without a symbol, and two of which the more profitable has a symbol
TokenStatsInputs ==
    {<<>>,
     <<[finite |-> FALSE, pnlUsd |-> 0, tokenSymbol |-> TRUE]>>,
     <<[finite |-> TRUE, pnlUsd |-> 1, tokenSymbol |-> FALSE]>>,
     <<[finite |-> TRUE, pnlUsd |-> 0, tokenSymbol |-> FALSE], [finite |-> TRUE, pnlUsd |-> 1, tokenSymbol |-> TRUE]>>}

FrMetaInputs ==
    {NoData} \cup [isNull : {FALSE}, primaryLabel : BOOLEAN, verified : BOOLEAN, tokenStats : TokenStatsInputs]
\* the number of items or tags, for the sources that give a list
ListInputs == {NoData} \cup [isNull : {FALSE}, length : 0..1]
ArkhamInputs ==
    {NoData} \cup [isNull : {FALSE}, labelName : BOOLEAN, entityName : BOOLEAN,
                   entityType : {"", "fund", "mixer"}, tags : 0..1]
HoldingsInputs == {NoData} \cup [isNull : {FALSE}, length : 0..1, walletTags : 0..1]
BscscanInputs == {NoData} \cup [isNull : {FALSE}, txCount24h : 0..1, tokenTransferCount24h : 0..1]

\* lines 768-770: the first of the stats with a numeric pnl, sorted by pnl,
\* largest first; undefined when no stat has one
BestStat(stats) ==
    LET ok == {i \in 1..Len(stats) : stats[i].finite}
    IN  IF ok = {} THEN [tokenSymbol |-> FALSE]
        ELSE stats[CHOOSE i \in ok : \A j \in ok :
                       stats[i].pnlUsd > stats[j].pnlUsd \/ (stats[i].pnlUsd = stats[j].pnlUsd /\ i <= j)]

Pushes(src, n) == [k \in 1..n |-> src]
When(cond) == IF cond THEN 1 ELSE 0

\* the label profile with a finding for every stat it carries
FrMetaFindingsPerStat(frMeta) ==
    IF frMeta.isNull THEN <<>>
    ELSE Pushes("label profile",
                When(frMeta.primaryLabel) + When(frMeta.verified) + Len(frMeta.tokenStats))

\* lines 744-787
FrMetaFindings(frMeta) ==
    IF frMeta.isNull THEN <<>>
    ELSE Pushes("label profile",
                When(frMeta.primaryLabel) + When(frMeta.verified)
                  + When(Len(frMeta.tokenStats) > 0 /\ BestStat(frMeta.tokenStats).tokenSymbol))

\* lines 789-799
FrAltFindings(frAlt) ==
    IF frAlt.isNull THEN <<>> ELSE Pushes("alt-wallet list", When(frAlt.length > 0))

\* lines 801-812
MrTagsFindings(mrTags) ==
    IF mrTags.isNull THEN <<>> ELSE Pushes("tag service", When(mrTags.length > 0))

\* lines 814-855; riskyTypes of line 827 holds "mixer"
ArkhamFindings(arkham) ==
    IF arkham.isNull THEN <<>>
    ELSE Pushes("entity intelligence",
                When(arkham.labelName \/ arkham.entityName \/ arkham.entityType # "")
                  + When(arkham.entityType = "mixer")
                  + When(arkham.tags > 0))

\* lines 857-885
HoldingsFindings(holdings) ==
    IF holdings.isNull \/ holdings.length = 0 THEN <<>>
    ELSE Pushes("portfolio", 1 + When(holdings.walletTags > 0))

\* lines 886-905
TradesFindings(trades) ==
    IF trades.isNull THEN <<>> ELSE Pushes("trade sample", When(trades.length > 0))

\* lines 907-919
BscscanFindings(bscscan) ==
    IF bscscan.isNull THEN <<>>
    ELSE Pushes("explorer activity", When(bscscan.txCount24h > 0 \/ bscscan.tokenTransferCount24h > 0))

IntelOthers == <<dex, intel, meme, score, rvars, bvars, pvars, avars, fvars, nvars, uvars, cvars, gvars, kvars,
                 wvars, dvars, mvars, svars>>

\* lines 720-737: the seven awaited sources have settled; the portfolio is
\* asked for a wallet only and the trades for a contract only
InitIntel ==
    /\ resolved \in {ContractTarget, WalletTarget}
    /\ intelData \in [frMeta : FrMetaInputs, frAlt : ListInputs, mrTags : ListInputs, arkham : ArkhamInputs,
                      gmgnHoldings : IF resolved.isContract THEN {NoData} ELSE HoldingsInputs,
                      gmgnTrades : IF resolved.isContract THEN ListInputs ELSE {NoData},
                      bscscan : BscscanInputs]
    /\ intelPc = "settled"
    /\ findings = <<>>
    /\ dex = DexNone /\ intel = ZeroIntel /\ meme = MemeNull /\ score = 0
    /\ dsResponse = [kind |-> "nopair", usd |-> 0, fdv |-> 0]
    /\ RiskOff /\ BundleOff /\ RequestOff
    /\ AdapterOff /\ AppendOff /\ NarrativeOff /\ RuntimeOff /\ HoldersOff /\ AgentRunOff /\ NfaOff /\ FundsOff
    /\ FundingOff
    /\ PoolOff
    /\ StoreOff

\* lines 744-921: the findings are pushed source by source
IntelPushFindings ==
    /\ intelPc = "settled"
    /\ findings' = findings \o FrMetaFindings(intelData.frMeta) \o FrAltFindings(intelData.frAlt)
                     \o MrTagsFindings(intelData.mrTags) \o ArkhamFindings(intelData.arkham)
                     \o HoldingsFindings(intelData.gmgnHoldings) \o TradesFindings(intelData.gmgnTrades)
                     \o BscscanFindings(intelData.bscscan)
    /\ intelPc' = "returned"
    /\ UNCHANGED <<resolved, intelData, IntelOthers>>

NextIntel == IntelPushFindings

SpecIntel == InitIntel /\ [][NextIntel]_vars

(***************************************************************************)
(* Claims on the findings of the intel module (SpecIntel)                  *)
(***************************************************************************)
FindingsOf(src) == Len(SelectSeq(findings, LAMBDA f : f = src))

\* C27 as stated: each source that returned data contributes at most 2
\* findings.
C27_AtMostTwoPerSource == \A src \in IntelSources : FindingsOf(src) <= 2

\* C27: each source that returned data contributes at most 3 findings, and
\* at most 2 unless it is the label profile or entity intelligence.
C27_AtMostThreePerSource ==
    \A src \in IntelSources :
        /\ FindingsOf(src) <= 3
        /\ src \notin {"label profile", "entity intelligence"} => FindingsOf(src) <= 2

\* a wallet with a labelled, verified profile whose best asset has a symbol
\* and with a tagged portfolio: three findings and two
C27_Witness ==
    /\ intelPc = "returned"
    /\ ~intelData.frMeta.isNull
    /\ FindingsOf("label profile") = 3
    /\ FindingsOf("portfolio") = 2

(***************************************************************************)
(* SpecStore: AgentStore operations running on one store file              *)
(***************************************************************************)
\* the operations called in one behaviour
MaxOps == 2
OpIds == 1..MaxOps
\* agentStore.ts lines 221 and 281
HistoryCap == 400
UsedCap == 1000

\* Array.prototype.slice(-n)
SliceLast(seq, n) == SubSeq(seq, Max(1, Len(seq) - n + 1), Len(seq))

\* one message with content, or one hash, per call
StoreCalls(o) ==
    {[kind |-> "appendHistory", arg |-> <<"message", o>>],
     [kind |-> "markPaymentTxUsed", arg |-> "0xAB"],
     [kind |-> "markPaymentTxUsed", arg |-> "0xcd"]}

\* appendHistory lines 212-222: the local data after the read
AppendedTo(data, message) == [data EXCEPT !.history = SliceLast(data.history \o <<message>>, HistoryCap)]

\* markPaymentTxUsed lines 277-281
MarkedIn(data, txHash) ==
    [data EXCEPT !.used = SliceLast(data.used \o <<normalizeHash(txHash)>>, UsedCap)]

ArrayIncludes(seq, x) == \E k \in 1..Len(seq) : seq[k] = x

StoreOthers == <<facts, rvars, bvars, pvars, avars, fvars, nvars, uvars, cvars, gvars, kvars, wvars,
                 dvars, mvars, ivars>>

\* the store file is missing and MaxOps calls are about to be made
InitStore ==
    /\ storeFile = EmptyStore
    /\ tmpFile = NoFile
    /\ ops \in [OpIds -> UNION {[call : StoreCalls(o), at : {"called"}, data : {EmptyStore}] : o \in OpIds}]
    /\ \A o \in OpIds : ops[o].call \in StoreCalls(o)
    /\ RestOff
    /\ FundingOff
    /\ PoolOff
    /\ IntelOff

\* readStoreFile lines 105-118 has resolved and the operation runs to its
\* next await: appendHistory lines 211-225, markPaymentTxUsed lines 276-282
StoreRead(o) ==
    /\ ops[o].at = "called"
    /\ LET data == storeFile
           call == ops[o].call
       IN  IF call.kind = "appendHistory"
           THEN ops' = [ops EXCEPT ![o].at = "modified", ![o].data = AppendedTo(data, call.arg)]
           ELSE IF ArrayIncludes(data.used, normalizeHash(call.arg))
           THEN ops' = [ops EXCEPT ![o].at = "done", ![o].data = data]
           ELSE ops' = [ops EXCEPT ![o].at = "modified", ![o].data = MarkedIn(data, call.arg)]
    /\ UNCHANGED <<storeFile, tmpFile, StoreOthers>>

\* writeStoreFile lines 121-123: the data is written to the one .tmp path
StoreWriteTmp(o) ==
    /\ ops[o].at = "modified"
    /\ tmpFile' = ops[o].data
    /\ ops' = [ops EXCEPT ![o].at = "written"]
    /\ UNCHANGED <<storeFile, StoreOthers>>

\* writeStoreFile line 124: the .tmp file takes the place of the store file
\* and the operation resolves; with no .tmp file rename rejects and so does
\* the operation
StoreRename(o) ==
    /\ ops[o].at = "written"
    /\ IF tmpFile = NoFile
       THEN /\ ops' = [ops EXCEPT ![o].at = "rejected"]
            /\ UNCHANGED <<storeFile, tmpFile>>
       ELSE /\ storeFile' = tmpFile
            /\ tmpFile' = NoFile
            /\ ops' = [ops EXCEPT ![o].at = "done"]
    /\ UNCHANGED StoreOthers

NextStore ==
    \/ \E o \in OpIds : StoreRead(o)
    \/ \E o \in OpIds : StoreWriteTmp(o)
    \/ \E o \in OpIds : StoreRename(o)

SpecStore == InitStore /\ [][NextStore]_vars

(***************************************************************************)
(* Claims on the store file (SpecStore)                                    *)
(***************************************************************************)
Recorded(call) ==
    IF call.kind = "appendHistory"
    THEN ArrayIncludes(storeFile.history, call.arg)
    ELSE ArrayIncludes(storeFile.used, normalizeHash(call.arg))

\* C29: the message of every completed appendHistory is in the stored
\* history and the hash of every completed markPaymentTxUsed is recorded,
\* whatever other operations run on the store file at the same time.
C29_NoCompletedWriteLost == \A o \in DOMAIN ops : ops[o].at = "done" => Recorded(ops[o].call)

====
